---------------------------- MODULE Spec2Model ----------------------------
(***************************************************************************)
(* The upload path of skills/gdocs-upload/upload.py: upload_to_drive,      *)
(* clear_document_content, copy_doc_content_to_existing and                *)
(* apply_document_styles, run against a document store that applies each   *)
(* batchUpdate atomically and its requests in order.                       *)
(*                                                                         *)
(* A document of the store is a flat sequence of index units; the unit at  *)
(* position i of the sequence is the one the Docs API addresses by index i *)
(* (index 0, the leading section break, is not part of the sequence).      *)
(* Text is a sequence of one-character strings.                            *)
(*                                                                         *)
(* The second part is the renderer of gdocs-export/gdoc2md.py:             *)
(* convert_paragraph_to_markdown and convert_table_to_markdown, applied    *)
(* under SpecMd to paragraphs and tables drawn from bounded sets.          *)
(***************************************************************************)
EXTENDS Integers, Sequences, FiniteSets, TLC

\* ------------------------------------------------------------------ bounds
\* Longest sequence of elements in front of the closing paragraph of a small
\* source body.
MaxElems == 2
\* Most characters the existing document holds, besides its final newline,
\* before it is cleared.
MaxOldLen == 2

\* Most elements in the content of the only tab of a document.
MaxStream == 4
\* Most elements in the content of a tab of a document of two tabs.
MaxTabStream == 2
\* Most levels of a tree of tabs.
MaxTabLevels == 4
\* The pieces of an initial markdown file.
MaxPieces == 2
\* The calls of save_doc_id_to_markdown on one file.
MaxSaves == 3
\* Most lines of a markdown text handed to the list preprocessing.
MaxLines == 3
\* Most applications of the list preprocessing to one text.
MaxPasses == 2
\* Most elements in an exported paragraph of more than one element.
MaxRuns == 2
\* Deepest nestingLevel of an exported bullet.
MaxNesting == 2
\* Most rows, and most cells in a row, of an exported table.
MaxRows == 2
MaxCols == 3

\* ------------------------------------------------------- program constants
StyleBatchSize == 30
FormatBatchSize == 50
BulletBatchSize == 50
CellStyleBatchSize == 20

\* ----------------------------------------------------------------- helpers
Min(a, b) == IF a < b THEN a ELSE b

RECURSIVE Flatten(_)
Flatten(ss) ==
  IF Len(ss) = 0 THEN <<>>
  ELSE IF Len(ss) = 1 THEN ss[1]
  ELSE LET h == Len(ss) \div 2 IN
       Flatten(SubSeq(ss, 1, h)) \o Flatten(SubSeq(ss, h + 1, Len(ss)))

\* sum(...) over a sequence of numbers, halving the sequence.
RECURSIVE Sum(_)
Sum(ns) ==
  IF Len(ns) = 0 THEN 0
  ELSE IF Len(ns) = 1 THEN ns[1]
  ELSE LET h == Len(ns) \div 2 IN
       Sum(SubSeq(ns, 1, h)) + Sum(SubSeq(ns, h + 1, Len(ns)))

SumLen(ss) == Sum([i \in 1..Len(ss) |-> Len(ss[i])])

Tabs(n) == [i \in 1..n |-> "\t"]

\* --------------------------------------------------- the source document
\* A text run: its content and the set of text-style attributes that are
\* present (and truthy) in its textStyle.
Run(t, s) == [text |-> t, style |-> s]

NoBullet == [present |-> FALSE, listId |-> "", nestingLevel |-> 0]
Bullet(l, n) == [present |-> TRUE, listId |-> l, nestingLevel |-> n]

\* A body element is a paragraph or a table.  A table cell is the sequence
\* of the text runs of its paragraphs; the last run of a cell ends with the
\* newline that closes the cell's last paragraph.
Paragraph(ns, b, rs) ==
  [kind |-> "paragraph", named |-> ns, bullet |-> b, runs |-> rs,
   rows |-> 0, columns |-> 0, tableRows |-> <<>>]
Table(r, c, trs) ==
  [kind |-> "table", named |-> "", bullet |-> NoBullet, runs |-> <<>>,
   rows |-> r, columns |-> c, tableRows |-> trs]

\* The lists of the source document: list id -> the glyph types of the
\* list's nesting levels, first level first.  A list may define no level.
source_lists == [l \in {"num", "disc", "roman", "mixed", "bare"} |->
                   IF l = "num" THEN <<"DECIMAL">>
                   ELSE IF l = "disc" THEN <<"GLYPH_TYPE_UNSPECIFIED">>
                   ELSE IF l = "roman" THEN <<"UPPER_ROMAN", "GLYPH_TYPE_UNSPECIFIED">>
                   ELSE IF l = "mixed" THEN <<"GLYPH_TYPE_UNSPECIFIED", "DECIMAL">>
                   ELSE <<>>]

PPlain == Paragraph("NORMAL_TEXT", NoBullet, <<Run(<<"a", "\n">>, {})>>)
PHead == Paragraph("HEADING_1", NoBullet, <<Run(<<"h", "i", "\n">>, {"bold"})>>)
PMixed == Paragraph("NORMAL_TEXT", NoBullet,
                    <<Run(<<"x">>, {"bold"}), Run(<<"y", "z">>, {"italic", "link"}),
                      Run(<<"\n">>, {})>>)
PBullet0 == Paragraph("NORMAL_TEXT", Bullet("num", 0), <<Run(<<"b", "\n">>, {})>>)
PBullet1 == Paragraph("NORMAL_TEXT", Bullet("disc", 1), <<Run(<<"c", "\n">>, {})>>)
PHeadBullet == Paragraph("HEADING_2", Bullet("gone", 0),
                         <<Run(<<"k", "\n">>, {"underline"})>>)

BoldCell == <<Run(<<"c">>, {"bold"}), Run(<<"d", "\n">>, {})>>
EmptyCell == <<Run(<<"\n">>, {})>>
Table12 == Table(1, 2, << <<BoldCell, EmptyCell>> >>)
Table37 == Table(3, 7, [r \in 1..3 |-> [c \in 1..7 |-> BoldCell]])
\* A table need not be rectangular: `columns` is the number of columns of
\* the table, and a row may hold fewer cells.
TableRagged == Table(2, 2, << <<BoldCell, BoldCell>>, <<BoldCell>> >>)

Paragraphs == {PPlain, PHead, PMixed, PBullet0, PBullet1}
Elements == Paragraphs \cup {Table12}

RECURSIVE SeqsUpTo(_, _)
SeqsUpTo(S, n) ==
  IF n = 0 THEN {<<>>}
  ELSE LET shorter == SeqsUpTo(S, n - 1)
       IN shorter \cup {Append(s, x) : s \in shorter, x \in S}

\* A body read from the store ends with a paragraph, and every paragraph
\* ends with a newline.
SmallBodies == {Append(s, p) : s \in SeqsUpTo(Elements, MaxElems), p \in Paragraphs}
LongBodies == {[i \in 1..(FormatBatchSize + 1) |-> PHeadBullet],
               <<Table37, PPlain>>}
RaggedBodies == {<<TableRagged, PPlain>>, <<Table12, TableRagged, PPlain>>}
\* Bullets of every kind of list: a roman list, a list whose second level
\* only is numbered, a list without levels, a bullet without a list id and
\* a bullet whose list the document does not define.
PListed(l) == Paragraph("NORMAL_TEXT", Bullet(l, 0), <<Run(<<"m", "\n">>, {})>>)
ListBodies == {<<PListed("roman"), PPlain, PListed("mixed"), PListed("bare"),
                 PListed(""), PListed("gone")>>}
\* A heading without text next to a heading with text.
PEmptyHead == Paragraph("HEADING_1", NoBullet, <<Run(<<"\n">>, {})>>)
HeadBodies == {<<PEmptyHead, PHead>>, <<PEmptyHead, Table12, PEmptyHead>>}
\* Two tables, each after a nested bullet.
TableBodies == {<<PBullet1, Table12, PBullet1, Table12, PPlain>>}
Bodies == SmallBodies \cup LongBodies \cup RaggedBodies \cup ListBodies \cup HeadBodies
          \cup TableBodies

\* ------------------------------------------------- the destination store
\* One index unit.  k: "ch" a character of the body, "cc" a character in a
\* table cell, "tbl" / "row" / "cell" / "end" the structural units of a
\* table.  c: the character.  ns: the named style of the paragraph a
\* newline closes.  p, a, b say where the unit comes from and are read by
\* the properties only: for a character inserted by step 1 the paragraph,
\* run and position in the run it renders; for the units of a table the
\* paragraph position of the table's placeholder and the row and column.
Unit(k, c, p, a, b) == [k |-> k, c |-> c, ns |-> "NORMAL_TEXT", p |-> p, a |-> a, b |-> b]
FinalNewline == Unit("ch", "\n", 0, 0, 0)
OldChar == Unit("ch", "o", 0, 0, 0)

IsNewline(u) == u.k = "ch" /\ u.c = "\n"
Chars(us) == [i \in 1..Len(us) |-> us[i].c]

\* A request of a batchUpdate.  s, e: the index, or the range [s, e).
\* fields: the style fields the request sets; val: the named style or the
\* bullet preset it sets.  para, run: the paragraph (and run) of
\* `paragraphs` the request was computed for, 0 when it was computed for none.
Op(op, s, e, para, run, fields, val) ==
  [op |-> op, s |-> s, e |-> e, text |-> <<>>, rows |-> 0, columns |-> 0,
   para |-> para, run |-> run, fields |-> fields, val |-> val]
TextOp(op, s, text) ==
  [op |-> op, s |-> s, e |-> s, text |-> text, rows |-> 0, columns |-> 0,
   para |-> 0, run |-> 0, fields |-> {}, val |-> ""]
TableOp(s, r, c, para) ==
  [op |-> "insertTable", s |-> s, e |-> s, text |-> <<>>, rows |-> r, columns |-> c,
   para |-> para, run |-> 0, fields |-> {}, val |-> ""]

\* ------------------------------------ copy_doc_content_to_existing: collect
\* Variant: a nested bullet's paragraph keeps no leading tabs.
TextRunsOfNoTabs(el) == SelectSeq(el.runs, LAMBDA r : r.text # <<>>)

\* The text runs kept for one source paragraph: leading tabs for a nested
\* bullet, then the non-empty text runs.
TextRunsOf(el) ==
  (IF el.bullet.present /\ el.bullet.nestingLevel > 0
     THEN <<Run(Tabs(el.bullet.nestingLevel), {})>> ELSE <<>>)
  \o SelectSeq(el.runs, LAMBDA r : r.text # <<>>)

PlaceholderParagraph ==
  [named_style |-> "NORMAL_TEXT", text_runs |-> <<Run(<<"\n">>, {})>>, bullet |-> NoBullet]

\* What one element of source_body appends to `paragraphs`.
Collected(el) ==
  IF el.kind = "paragraph" THEN
    LET text_runs == TextRunsOf(el) IN
    IF text_runs # <<>>
      THEN <<[named_style |-> el.named, text_runs |-> text_runs, bullet |-> el.bullet]>>
      ELSE <<>>
  ELSE IF el.kind = "table" THEN <<PlaceholderParagraph>>
  ELSE <<>>

\* The loop over source_body: `paragraphs` and `table_info`.  text_pos is
\* len(paragraphs) at the time the table is met.
ParagraphsOf(b) == Flatten([i \in 1..Len(b) |-> Collected(b[i])])
TableInfoOf(b) ==
  Flatten([i \in 1..Len(b) |->
     IF b[i].kind = "table"
       THEN <<[text_pos |-> Len(ParagraphsOf(SubSeq(b, 1, i - 1))), table |-> b[i]]>>
       ELSE <<>>])

\* para_len = sum(len(text) for text, _ in text_runs)
ParaLen(para) == SumLen([i \in 1..Len(para.text_runs) |-> para.text_runs[i].text])

\* --------------------------------------- step 1: the text of the document
\* all_text, each character tagged with the paragraph, run and position it
\* comes from.
RunUnits(pi, ri, run) == [ci \in 1..Len(run.text) |-> Unit("ch", run.text[ci], pi, ri, ci)]
ParaUnits(pi, para) ==
  Flatten([ri \in 1..Len(para.text_runs) |-> RunUnits(pi, ri, para.text_runs[ri])])
AllText(paras) == Flatten([pi \in 1..Len(paras) |-> ParaUnits(pi, paras[pi])])

Step1Requests(paras) ==
  IF AllText(paras) # <<>>
    THEN <<TextOp("insertTextEnd", 0, AllText(paras))>>
    ELSE <<>>

\* ------------------------------------ step 2: paragraph and text styles
BodyStyleFields == {"bold", "italic", "underline", "strikethrough", "weightedFontFamily",
                    "foregroundColor", "backgroundColor", "fontSize", "link"}

EndsWithNewline(text) == text # <<>> /\ text[Len(text)] = "\n"

\* The updateTextStyle of one run, or nothing.
RunStyleRequests(pi, ri, run, current_index) ==
  LET text_len == Len(run.text)
      style_fields == run.style \cap BodyStyleFields
      end_idx == current_index + text_len - (IF EndsWithNewline(run.text) THEN 1 ELSE 0)
  IN IF /\ text_len > 0 /\ run.style # {}
        /\ style_fields # {} /\ current_index + text_len - 1 > current_index
        /\ end_idx > current_index
       THEN <<Op("updateTextStyle", current_index, end_idx, pi, ri, style_fields, "")>>
       ELSE <<>>

RECURSIVE RunsStyleRequests(_, _, _, _)
RunsStyleRequests(pi, runs, ri, current_index) ==
  IF ri > Len(runs) THEN <<>>
  ELSE RunStyleRequests(pi, ri, runs[ri], current_index)
       \o RunsStyleRequests(pi, runs, ri + 1, current_index + Len(runs[ri].text))

ParagraphStyleRequests(pi, para, para_start) ==
  IF para.named_style # "" /\ para.named_style # "NORMAL_TEXT"
    THEN <<Op("updateParagraphStyle", para_start, para_start + ParaLen(para),
              pi, 0, {"namedStyleType"}, para.named_style)>>
    ELSE <<>>

FirstIndex == 1

\* The value of the running index when the loop reaches paragraph pi:
\* `first` plus the lengths of the paragraphs before it.
IndexAt(paras, pi, first) == first + Sum([i \in 1..(pi - 1) |-> ParaLen(paras[i])])

FormatFrom(paras, first) ==
  Flatten([pi \in 1..Len(paras) |->
     ParagraphStyleRequests(pi, paras[pi], IndexAt(paras, pi, first))
     \o RunsStyleRequests(pi, paras[pi].text_runs, 1, IndexAt(paras, pi, first))])

\* Variant: the running offset starts at index 0 instead of 1.
FormatRequestsFromZero(paras) == FormatFrom(paras, 0)

FormatRequests(paras) == FormatFrom(paras, FirstIndex)

\* ------------------------------------------------------ step 2b: bullets
NumberedGlyphs == {"DECIMAL", "ALPHA", "ROMAN", "ZERO_DECIMAL", "UPPER_ALPHA", "UPPER_ROMAN"}

\* Variant: the list is numbered when any of its levels is.
BulletPresetAnyLevel(bullet) ==
  IF /\ bullet.listId # "" /\ bullet.listId \in DOMAIN source_lists
     /\ \E n \in DOMAIN source_lists[bullet.listId] :
          source_lists[bullet.listId][n] \in NumberedGlyphs
    THEN "NUMBERED_DECIMAL_ALPHA_ROMAN"
    ELSE "BULLET_DISC_CIRCLE_SQUARE"

\* preset: unordered unless the list id is set, names a list of the source,
\* the list has nesting levels and the first one has a numbered glyph type.
BulletPreset(bullet) ==
  IF /\ bullet.listId # "" /\ bullet.listId \in DOMAIN source_lists
     /\ source_lists[bullet.listId] # <<>>
     /\ source_lists[bullet.listId][1] \in NumberedGlyphs
    THEN "NUMBERED_DECIMAL_ALPHA_ROMAN"
    ELSE "BULLET_DISC_CIRCLE_SQUARE"

BulletFrom(paras, first) ==
  Flatten([pi \in 1..Len(paras) |->
     IF paras[pi].bullet.present
       THEN <<Op("createParagraphBullets", IndexAt(paras, pi, first),
                 IndexAt(paras, pi, first) + ParaLen(paras[pi]), pi, 0, {},
                 BulletPreset(paras[pi].bullet))>>
       ELSE <<>>])

BulletRequests(paras) == BulletFrom(paras, FirstIndex)

\* ------------------------------------------------- step 3: table structure
\* placeholder_start of the table met after text_pos paragraphs.
PlaceholderStart(paras, text_pos) ==
  1 + Sum([i \in 1..text_pos |-> ParaLen(paras[i])])

TableStructRequests(paras, info) ==
  LET placeholder_start == PlaceholderStart(paras, info.text_pos) IN
  <<Op("deleteContentRange", placeholder_start, placeholder_start + 1,
       info.text_pos + 1, 0, {}, ""),
    TableOp(placeholder_start, info.table.rows, info.table.columns, info.text_pos + 1)>>

\* ------------------------------------------- the store: applying requests
IsChar(u) == u.k \in {"ch", "cc"}
IsParaEnd(u) == IsChar(u) /\ u.c = "\n"

\* The first index of the paragraph that holds index j, and the index after
\* its closing newline.
RECURSIVE ParaStartOf(_, _)
ParaStartOf(doc, j) ==
  IF j = 1 \/ ~IsChar(doc[j - 1]) \/ IsParaEnd(doc[j - 1]) THEN j
  ELSE ParaStartOf(doc, j - 1)

RECURSIVE ParaEndOf(_, _)
ParaEndOf(doc, j) ==
  IF j >= Len(doc) \/ IsParaEnd(doc[j]) THEN j + 1 ELSE ParaEndOf(doc, j + 1)

\* The paragraph that holds index j overlaps the range [s, e).
ParaOverlaps(doc, j, s, e) == ParaStartOf(doc, j) < e /\ ParaEndOf(doc, j) > s

\* The units of doc from index i on whose index is in keep.
KeepFrom(doc, i, keep) ==
  LET at == [k \in 1..Len(doc) |-> [index |-> k, unit |-> doc[k]]]
      kept == SelectSeq(at, LAMBDA x : x.index >= i /\ x.index \in keep)
  IN [k \in 1..Len(kept) |-> kept[k].unit]

\* createParagraphBullets reads the nesting level of a paragraph off its
\* leading tabs and removes them: the indices of the leading tabs of the
\* paragraphs that overlap [s, e).
StrippedTabs(doc, s, e) ==
  {j \in 1..Len(doc) :
     /\ IsChar(doc[j]) /\ doc[j].c = "\t"
     /\ \A i \in ParaStartOf(doc, j)..j : doc[i].c = "\t"
     /\ ParaOverlaps(doc, j, s, e)}

\* An empty table of r rows and c columns, every cell one empty paragraph.
TableUnits(p, r, c) ==
  <<Unit("tbl", "", p, r, c)>>
  \o Flatten([ri \in 1..r |->
        <<Unit("row", "", p, ri, 0)>>
        \o Flatten([ci \in 1..c |-> <<Unit("cell", "", p, ri, ci), Unit("cc", "\n", p, ri, ci)>>])])
  \o <<Unit("end", "", p, 0, 0)>>

InsertAt(doc, idx, us) == SubSeq(doc, 1, idx - 1) \o us \o SubSeq(doc, idx, Len(doc))

\* A request is valid when its index lies in the segment (text cannot be
\* inserted after the final newline, which cannot be deleted either) and
\* its range is not empty.
ValidOp(doc, op) ==
  CASE op.op = "insertTextEnd" -> doc # <<>>
    [] op.op \in {"insertText", "insertTable"} -> 1 <= op.s /\ op.s <= Len(doc)
    [] op.op = "deleteContentRange" -> 1 <= op.s /\ op.s < op.e /\ op.e <= Len(doc)
    [] op.op = "updateTableCellStyle" -> 1 <= op.s /\ op.s <= Len(doc)
    [] OTHER -> 1 <= op.s /\ op.s < op.e /\ op.e <= Len(doc) + 1

\* The document after one valid request.
ApplyOp(doc, op) ==
  CASE op.op = "insertTextEnd" -> InsertAt(doc, Len(doc), op.text)
    [] op.op = "insertText" -> InsertAt(doc, op.s, op.text)
    [] op.op = "deleteContentRange" -> SubSeq(doc, 1, op.s - 1) \o SubSeq(doc, op.e, Len(doc))
    [] op.op = "insertTable" ->
         InsertAt(doc, op.s, <<FinalNewline>> \o TableUnits(op.para, op.rows, op.columns))
    [] op.op = "createParagraphBullets" ->
         KeepFrom(doc, 1, (1..Len(doc)) \ StrippedTabs(doc, op.s, op.e))
    [] op.op = "updateParagraphStyle" /\ "namedStyleType" \in op.fields ->
         [j \in 1..Len(doc) |->
            IF IsParaEnd(doc[j]) /\ ParaOverlaps(doc, j, op.s, op.e)
              THEN [doc[j] EXCEPT !.ns = op.val] ELSE doc[j]]
    [] OTHER -> doc

\* The places where one request changes the length of the document.
ShiftsOf(doc, op) ==
  CASE op.op = "insertTextEnd" -> {[pos |-> Len(doc), kind |-> "ins"]}
    [] op.op \in {"insertText", "insertTable"} -> {[pos |-> op.s, kind |-> "ins"]}
    [] op.op = "deleteContentRange" -> {[pos |-> op.s, kind |-> "del"]}
    [] op.op = "createParagraphBullets" ->
         {[pos |-> j, kind |-> "del"] : j \in StrippedTabs(doc, op.s, op.e)}
    [] OTHER -> {}

\* A request uses an offset that a change of length has moved: an insertion
\* at or before the index, a deletion before it, or either before the end
\* of the range.
IsRangeOp(op) == op.op \notin {"insertTextEnd", "insertText", "insertTable", "updateTableCellStyle"}
StaleOp(op, shifts) ==
  /\ op.op # "insertTextEnd"
  /\ \E sh \in shifts :
       IF IsRangeOp(op) THEN sh.pos < op.e
       ELSE IF sh.kind = "ins" THEN sh.pos <= op.s ELSE sh.pos < op.s

\* The requests of one batch, applied in order: the document, whether every
\* request was valid, the changes of length so far and whether a request
\* used a moved offset.
ApplyOne(st, op) ==
  IF ~st.ok THEN st
  ELSE IF ~ValidOp(st.doc, op)
    THEN [st EXCEPT !.ok = FALSE, !.stale = @ \/ StaleOp(op, st.shifts)]
    ELSE [doc |-> ApplyOp(st.doc, op), ok |-> TRUE,
          shifts |-> st.shifts \cup ShiftsOf(st.doc, op),
          stale |-> st.stale \/ StaleOp(op, st.shifts)]

\* ops[lo..hi] applied in order to st, the first half before the second.
RECURSIVE ApplyFrom(_, _, _, _)
ApplyFrom(ops, lo, hi, st) ==
  IF lo > hi \/ ~st.ok THEN st
  ELSE IF lo = hi THEN ApplyOne(st, ops[lo])
  ELSE LET mid == (lo + hi) \div 2
           first == ApplyFrom(ops, lo, mid, st)
       IN IF first.ok THEN ApplyFrom(ops, mid + 1, hi, first) ELSE first

ApplyBatch(doc, ops, shifts) ==
  ApplyFrom(ops, 1, Len(ops), [doc |-> doc, ok |-> TRUE, shifts |-> shifts, stale |-> FALSE])

\* ------------------------------------------------ reading a fetched document
SetMin(S) == CHOOSE x \in S : \A y \in S : x <= y
SetMax(S) == CHOOSE x \in S : \A y \in S : x >= y

Ascending(S) ==
  [m \in 1..Cardinality(S) |-> CHOOSE x \in S : Cardinality({y \in S : y <= x}) = m]
Descending(S) ==
  [m \in 1..Cardinality(S) |-> CHOOSE x \in S : Cardinality({y \in S : y >= x}) = m]

\* Variant: the last such table of the document is taken.
FindTableLast(doc, placeholder_start) ==
  LET found == {j \in 1..Len(doc) : doc[j].k = "tbl" /\ j >= placeholder_start - 1}
  IN IF found = {} THEN 0 ELSE SetMax(found)

\* The start index of the first table element whose startIndex is at least
\* placeholder_start - 1; 0 when there is none.
FindTable(doc, placeholder_start) ==
  LET found == {j \in 1..Len(doc) : doc[j].k = "tbl" /\ j >= placeholder_start - 1}
  IN IF found = {} THEN 0 ELSE SetMin(found)

TableEndOf(doc, t) == SetMin({j \in t..Len(doc) : doc[j].k = "end"})

\* The indices of the cells of the table that starts at t, and the row and
\* column of a cell; the first paragraph of a cell starts right after it.
CellsOf(doc, t) == {j \in t..TableEndOf(doc, t) : doc[j].k = "cell"}
RowOf(doc, j) == doc[j].a
ColOf(doc, j) == doc[j].b

\* The start indices of the paragraphs of the cell at index j.
CellParagraphStarts(doc, j) ==
  {i \in (j + 1)..Len(doc) :
     /\ \A m \in (j + 1)..i : doc[m].k = "cc"
     /\ (i = j + 1 \/ IsParaEnd(doc[i - 1]))}

\* ------------------------------------------------- step 3: filling a table
RECURSIVE RStripNewlines(_)
RStripNewlines(text) ==
  IF EndsWithNewline(text) THEN RStripNewlines(SubSeq(text, 1, Len(text) - 1)) ELSE text

\* The text runs kept for the source cell (row, col), the trailing newline of
\* the last one stripped.
CellTextRuns(table, row, col) ==
  LET text_runs == SelectSeq(table.tableRows[row][col], LAMBDA r : r.text # <<>>)
      n == Len(text_runs)
  IN IF n = 0 THEN <<>>
     ELSE [text_runs EXCEPT ![n] = Run(RStripNewlines(text_runs[n].text), text_runs[n].style)]

\* The keys of source_cell_data.
SourceCells(table) ==
  {rc \in (1..Len(table.tableRows)) \X (1..table.columns) :
     /\ rc[2] <= Len(table.tableRows[rc[1]])
     /\ CellTextRuns(table, rc[1], rc[2]) # <<>>}

FullText(text_runs) == Flatten([i \in 1..Len(text_runs) |-> text_runs[i].text])

\* The cells of the destination table that receive text: those whose
\* position is a key of source_cell_data with a non-empty text.
FilledCells(doc, t, table) ==
  {j \in CellsOf(doc, t) :
     /\ <<RowOf(doc, j), ColOf(doc, j)>> \in SourceCells(table)
     /\ FullText(CellTextRuns(table, RowOf(doc, j), ColOf(doc, j))) # <<>>
     /\ j < Len(doc) /\ doc[j + 1].k = "cc"}

CellUnits(doc, j, text) == [i \in 1..Len(text) |-> Unit("cc", text[i], doc[j].p, RowOf(doc, j), ColOf(doc, j))]

\* Variant: cell_inserts in ascending order of insert index.
CellInsertOrderAscending(S) == Ascending(S)

\* insert_requests: cell_inserts sorted by insert index, highest first.
CellInsertOrder(S) == Descending(S)
CellInsertRequests(doc, t, table) ==
  LET order == CellInsertOrder(FilledCells(doc, t, table))
  IN [n \in 1..Len(order) |->
        TextOp("insertText", order[n] + 1,
               CellUnits(doc, order[n],
                         FullText(CellTextRuns(table, RowOf(doc, order[n]), ColOf(doc, order[n])))))]

CellStyleFields == {"bold", "italic", "underline", "link"}

RECURSIVE CellRunsStyleRequests(_, _, _, _)
CellRunsStyleRequests(para, runs, ri, current_idx) ==
  IF ri > Len(runs) THEN <<>>
  ELSE LET text_len == Len(runs[ri].text)
           style_fields == runs[ri].style \cap CellStyleFields
       IN (IF text_len > 0 /\ runs[ri].style # {} /\ style_fields # {}
                /\ current_idx + text_len > current_idx
             THEN <<Op("updateTextStyle", current_idx, current_idx + text_len,
                       para, ri, style_fields, "")>>
             ELSE <<>>)
          \o CellRunsStyleRequests(para, runs, ri + 1, current_idx + text_len)

\* style_requests of the re-fetched table, cell by cell in document order.
CellStyleRequests(doc, t, table) ==
  LET cells == Ascending({j \in CellsOf(doc, t) :
                   /\ <<RowOf(doc, j), ColOf(doc, j)>> \in SourceCells(table)
                   /\ j < Len(doc) /\ doc[j + 1].k = "cc"})
  IN Flatten([n \in 1..Len(cells) |->
        CellRunsStyleRequests(doc[cells[n]].p,
          CellTextRuns(table, RowOf(doc, cells[n]), ColOf(doc, cells[n])), 1, cells[n] + 1)])

\* font_requests: one per paragraph of a cell that holds a character
\* besides its newline.
FontRequests(doc, t) ==
  LET starts == Ascending(UNION {CellParagraphStarts(doc, j) : j \in CellsOf(doc, t)})
  IN Flatten([n \in 1..Len(starts) |->
        LET cell_start == starts[n]
            cell_end == ParaEndOf(doc, starts[n])
        IN IF cell_end - 1 > cell_start
             THEN <<Op("updateTextStyle", cell_start, cell_end - 1, doc[cell_start].p, 0,
                       {"fontSize"}, "")>>
             ELSE <<>>])

\* --------------------------------------------------- apply_document_styles
\* Variant: the heading override is emitted without the test for an empty
\* range.
ParagraphRequestsNoSkip(ns, start_index, end_index) ==
  (IF ns \in {"HEADING_1", "HEADING_2", "HEADING_3", "HEADING_4", "HEADING_5", "HEADING_6"}
     THEN <<Op("updateTextStyle", start_index, end_index - 1, 0, 0, {"weightedFontFamily"}, "")>>
     ELSE <<>>)
  \o (IF end_index > start_index
        THEN <<Op("updateParagraphStyle", start_index, end_index, 0, 0, {"spaceBelow"}, "")>>
        ELSE <<>>)

\* The requests for the paragraph [start_index, end_index) of named style ns.
ParagraphRequests(ns, start_index, end_index) ==
  (IF ns \in {"HEADING_1", "HEADING_2", "HEADING_3", "HEADING_4", "HEADING_5", "HEADING_6"}
        /\ end_index - 1 > start_index
     THEN <<Op("updateTextStyle", start_index, end_index - 1, 0, 0, {"weightedFontFamily"}, "")>>
     ELSE <<>>)
  \o (IF end_index > start_index
        THEN <<Op("updateParagraphStyle", start_index, end_index, 0, 0, {"spaceBelow"}, "")>>
        ELSE <<>>)

\* The requests for the table that starts at t: borders, header shading and
\* a bold request per non-empty paragraph of the first row.
TableRequests(doc, t) ==
  LET starts == Ascending(UNION {CellParagraphStarts(doc, j) :
                                   j \in {c \in CellsOf(doc, t) : RowOf(doc, c) = 1}})
  IN <<Op("updateTableCellStyle", t, t, 0, 0, {"borders", "contentAlignment"}, ""),
       Op("updateTableCellStyle", t, t, 0, 0, {"backgroundColor"}, "")>>
     \o Flatten([n \in 1..Len(starts) |->
          LET cell_start == starts[n]
              cell_end == ParaEndOf(doc, starts[n])
          IN IF cell_end - 1 > cell_start
               THEN <<Op("updateTextStyle", cell_start, cell_end - 1, 0, 0, {"bold"}, "")>>
               ELSE <<>>])

\* The loop over the body content of the fetched document.
\* Index i is where an element of the body content starts: a table, or a
\* paragraph outside a table.
IsElementStart(doc, i) ==
  doc[i].k = "tbl" \/ (doc[i].k = "ch" /\ ParaStartOf(doc, i) = i)

StyleRequestsFrom(doc, first) ==
  Flatten([k \in 1..(Len(doc) - first + 1) |->
     LET i == k + first - 1 IN
     IF ~IsElementStart(doc, i) THEN <<>>
     ELSE IF doc[i].k = "tbl" THEN TableRequests(doc, i)
     ELSE ParagraphRequests(doc[ParaEndOf(doc, i) - 1].ns, i, ParaEndOf(doc, i))])

StyleRequests(doc) == StyleRequestsFrom(doc, 1)

\* The document the store makes of an uploaded body.
ParagraphDoc(el) ==
  LET text == FullText(el.runs)
  IN [i \in 1..Len(text) |->
        IF i = Len(text) THEN [Unit("ch", text[i], 0, 0, 0) EXCEPT !.ns = el.named]
        ELSE Unit("ch", text[i], 0, 0, 0)]
TableDoc(el) ==
  <<Unit("tbl", "", 0, el.rows, el.columns)>>
  \o Flatten([r \in 1..Len(el.tableRows) |->
        <<Unit("row", "", 0, r, 0)>>
        \o Flatten([c \in 1..Len(el.tableRows[r]) |->
              <<Unit("cell", "", 0, r, c)>>
              \o [i \in 1..Len(FullText(el.tableRows[r][c])) |->
                    Unit("cc", FullText(el.tableRows[r][c])[i], 0, r, c)]])])
  \o <<Unit("end", "", 0, 0, 0)>>
DocOf(b) ==
  Flatten([i \in 1..Len(b) |-> IF b[i].kind = "table" THEN TableDoc(b[i]) ELSE ParagraphDoc(b[i])])

\* ------------------------------------------------- clear_document_content
\* Variant: the end index of the last element, final newline included.
ClearEndIndexWithNewline(doc) == Len(doc) + 1

\* content[-1].endIndex - 1
ClearEndIndex(doc) == (Len(doc) + 1) - 1
ClearDeleteRequests(doc) ==
  IF ClearEndIndex(doc) > 1
    THEN <<Op("deleteContentRange", 1, ClearEndIndex(doc), 0, 0, {}, "")>>
    ELSE <<>>
ClearBulletRequests == <<Op("deleteParagraphBullets", 1, 2, 0, 0, {}, "")>>

\* ------------------------------------------------------------------ state
VARIABLES
  body,          \* the body of the uploaded (source) document
  existing,      \* upload_to_drive was given an existing_doc_id
  dest,          \* the document written to: the existing one or, without it, the new one
  temp,          \* the uploaded document: "none", "exists" or "deleted"
  pc,            \* the statement the program is at
  ti,            \* the table of table_info being replayed (0: none)
  requests,      \* the request list being sent in batches
  bi,            \* the start of the next batch in `requests` (the loop's i)
  last,          \* the batch issued last, with the store's answer
  exc,           \* the exception that is propagating: "none", "rate", "err"
  raised,        \* the statement that raised it
  layoutShifts,  \* changes of length applied since step 1 laid the text out
  staleUse,      \* a request was issued with an offset a change had moved
  replayed,      \* text_pos of the tables whose structure batch was issued
  trace,         \* the stage of every batch issued, in order
  deletes        \* attempts to delete the uploaded document

\* gdoc2md.py, which shares no state with the upload:
VARIABLES
  element,       \* the structural element handed to a converter
  rendered,      \* the converter has returned
  markdown,      \* the string it returned
  document,      \* the document handed to get_all_tabs or convert_document_to_markdown
  call,          \* the function applied to it, with its flags
  result         \* the list it returned
\* main of upload.py:
VARIABLES
  returned_id    \* the id upload_to_drive returned to main, <<>> before it returns
\* The markdown file of upload.py:
VARIABLES
  file,          \* its content
  saved          \* the ids save_doc_id_to_markdown was called with, in order
\* The markdown handed to pandoc by upload.py:
VARIABLES
  raw,           \* the text read from the markdown file
  preprocessed,  \* what preprocess_markdown_for_lists made of it
  passes         \* the times it was applied
\* The output directory of gdoc2md.py:
VARIABLES
  directory,     \* its files, as a sequence of names with their content
  force,         \* --force
  exported       \* main has written the sections

vars == <<body, existing, dest, temp, pc, ti, requests, bi, last, exc, raised,
          layoutShifts, staleUse, replayed, trace, deletes, returned_id,
          element, rendered, markdown, document, call, result, file, saved,
          raw, preprocessed, passes, directory, force, exported>>
element_vars == <<element, rendered, markdown>>
document_vars == <<document, call, result>>
text_vars == <<raw, preprocessed, passes>>
disk_vars == <<directory, force, exported>>
export_vars == <<element_vars, document_vars, text_vars, disk_vars>>
file_vars == <<file, saved>>
upload_vars == <<body, existing, dest, temp, pc, ti, requests, bi, last, exc, raised,
                 layoutShifts, staleUse, replayed, trace, deletes, returned_id>>

paragraphs == ParagraphsOf(body)
table_info == TableInfoOf(body)

Outcomes == {"ok", "rate", "err"}
NoBatch == [stage |-> "none", ops |-> <<>>, outcome |-> "ok", attempt |-> 0, rest |-> 0]

\* What the existing document holds before the update: up to MaxOldLen
\* characters and the final newline, or a table and a paragraph.
OldDocs == {[i \in 1..(n + 1) |-> IF i = n + 1 THEN FinalNewline ELSE OldChar] : n \in 0..MaxOldLen}
           \cup {DocOf(<<Table12, PPlain>>)}

\* Nothing is being converted.
IdleElement == element = <<>> /\ rendered = FALSE /\ markdown = <<>>
Call(fn, split_by_sections, split_by_tabs, returned) ==
  [fn |-> fn, split_by_sections |-> split_by_sections, split_by_tabs |-> split_by_tabs,
   returned |-> returned]
NoCall == Call("none", FALSE, FALSE, FALSE)
IdleDocument == document = <<>> /\ call = NoCall /\ result = <<>>
IdleText == raw = <<>> /\ preprocessed = <<>> /\ passes = 0
IdleDisk == directory = <<>> /\ force = FALSE /\ exported = FALSE
IdleExport == IdleElement /\ IdleDocument /\ IdleText /\ IdleDisk

\* ------------------------------------------------ the doc-id marker
Whitespace == {" ", "\n", "\t"}
\* [a-zA-Z0-9_-]
IdChars ==
  {"a", "b", "c", "d", "e", "f", "g", "h", "i", "j", "k", "l", "m", "n",
   "o", "p", "q", "r", "s", "t", "u", "v", "w", "x", "y", "z", "A", "B",
   "C", "D", "E", "F", "G", "H", "I", "J", "K", "L", "M", "N", "O", "P",
   "Q", "R", "S", "T", "U", "V", "W", "X", "Y", "Z", "0", "1", "2", "3",
   "4", "5", "6", "7", "8", "9", "_", "-"}
CommentOpen == <<"<", "!", "-", "-">>
GoogleDocId == <<"g", "o", "o", "g", "l", "e", "-", "d", "o", "c", "-", "i", "d", ":">>
CommentClose == <<"-", "-", ">">>
\* s holds the literal at index i.
HasAt(s, i, literal) ==
  i >= 1 /\ i + Len(literal) - 1 <= Len(s) /\ SubSeq(s, i, i + Len(literal) - 1) = literal
\* \s* from index i: the index of the first character that is no whitespace.
SkipWhitespace(s, i) ==
  CHOOSE j \in i..(Len(s) + 1) :
    /\ \A k \in i..(j - 1) : s[k] \in Whitespace
    /\ j = Len(s) + 1 \/ s[j] \notin Whitespace
\* DOC_ID_PATTERN matched at index i: where group 1 starts and ends and where
\* the match ends; end = 0 when the pattern does not match at i. The group
\* is as long as it can be with the rest of the pattern still matching.
DocIdMatch(s, i) ==
  LET name == SkipWhitespace(s, i + Len(CommentOpen))
      from == SkipWhitespace(s, name + Len(GoogleDocId))
      closes(e) == HasAt(s, SkipWhitespace(s, e + 1), CommentClose)
      ends == {e \in from..Len(s) : (\A k \in from..e : s[k] \in IdChars) /\ closes(e)}
      to == CHOOSE e \in ends : \A m \in ends : m <= e
  IN IF HasAt(s, i, CommentOpen) /\ HasAt(s, name, GoogleDocId) /\ ends # {}
       THEN [from |-> from, to |-> to,
             end |-> SkipWhitespace(s, to + 1) + Len(CommentClose) - 1]
       ELSE [from |-> 0, to |-> 0, end |-> 0]
\* DOC_ID_PATTERN.search(content): the index of the first match, or 0.
DocIdSearch(s) ==
  LET found == {i \in 1..Len(s) : DocIdMatch(s, i).end > 0}
  IN IF found = {} THEN 0 ELSE CHOOSE i \in found : \A m \in found : i <= m
\* Variant: only the first match is replaced.
DocIdSubFirst(s, i, repl) ==
  LET at == DocIdSearch(s)
  IN IF at = 0 THEN s
     ELSE SubSeq(s, 1, at - 1) \o repl \o SubSeq(s, DocIdMatch(s, at).end + 1, Len(s))
\* DOC_ID_PATTERN.sub(repl, content), from index i on: every match, from left
\* to right and without overlap, is replaced.
RECURSIVE DocIdSub(_, _, _)
DocIdSub(s, i, repl) ==
  IF i > Len(s) THEN <<>>
  ELSE LET m == DocIdMatch(s, i)
       IN IF m.end > 0 THEN repl \o DocIdSub(s, m.end + 1, repl)
          ELSE <<s[i]>> \o DocIdSub(s, i + 1, repl)
\* f'<!-- google-doc-id: {doc_id} -->'
Marker(doc_id) ==
  CommentOpen \o <<" ">> \o GoogleDocId \o <<" ">> \o doc_id \o <<" ">> \o CommentClose
\* The content save_doc_id_to_markdown writes back to the file.
save_doc_id_to_markdown(content, doc_id) ==
  IF DocIdSearch(content) # 0 THEN DocIdSub(content, 1, Marker(doc_id))
  ELSE Marker(doc_id) \o <<"\n", "\n">> \o content
\* The id upload_to_drive returns: of the existing document, or of the new one.
OldId == <<"o", "l", "d">>
NewId == <<"n", "e", "w">>
\* The markdown file main reads: with the marker of the existing document.
MarkdownText == <<"#", " ", "T", "\n">>
MarkdownFile(hasId) ==
  IF hasId THEN Marker(OldId) \o <<"\n", "\n">> \o MarkdownText ELSE MarkdownText

Init ==
  /\ body \in Bodies
  /\ existing \in BOOLEAN
  /\ dest \in (IF existing THEN OldDocs ELSE {<<>>})
  /\ temp = "none"
  /\ pc = "create"
  /\ ti = 0
  /\ requests = <<>>
  /\ bi = 0
  /\ last = NoBatch
  /\ exc = "none"
  /\ raised = ""
  /\ layoutShifts = {}
  /\ staleUse = FALSE
  /\ replayed = <<>>
  /\ trace = <<>>
  /\ deletes = 0
  /\ returned_id = <<>>
  /\ IdleExport
  /\ file = MarkdownFile(existing) /\ saved = <<>>

\* ------------------------------------------------------- control helpers
\* Where control goes next: the statement, its request list, its table.
Point(p, rs, t) == [pc |-> p, requests |-> rs, ti |-> t]

\* The head of the loop over reversed(table_info), t tables being left.
ToTable(t) ==
  IF t = 0 THEN Point("delete_temp", <<>>, 0)
  ELSE Point("table_struct", TableStructRequests(paragraphs, table_info[t]), t)
FirstTable == Len(table_info)
NextTable(t) == t - 1

\* Variant: bullets are created before the styles are applied.
StageAfterBulletsFirst(stage) ==
  CASE stage = "text" -> "bullets"
    [] stage = "bullets" -> "format"
    [] OTHER -> "tables"

\* The order of the steps of copy_doc_content_to_existing.
StageAfter(stage) ==
  CASE stage = "text" -> "format"
    [] stage = "format" -> "bullets"
    [] OTHER -> "tables"
StageRequests(stage) ==
  IF stage = "format" THEN FormatRequests(paragraphs) ELSE BulletRequests(paragraphs)
\* A step without requests issues nothing: control falls through to the next.
RECURSIVE Enter(_)
Enter(stage) ==
  IF stage = "tables" THEN ToTable(FirstTable)
  ELSE IF StageRequests(stage) # <<>> THEN Point(stage, StageRequests(stage), 0)
  ELSE Enter(StageAfter(stage))
AfterStage(stage) == Enter(StageAfter(stage))

Go(pt) == pc' = pt.pc /\ requests' = pt.requests /\ ti' = pt.ti /\ bi' = 0

\* for i in range(0, len(requests), n): batch = requests[i:i+n]
BatchOf(n) == SubSeq(requests, bi + 1, Min(bi + n, Len(requests)))
\* The next turn of the batch loop, or what follows the loop.
AdvanceTo(n, loop, after) ==
  IF bi + n < Len(requests)
    THEN bi' = bi + n /\ pc' = loop /\ UNCHANGED <<requests, ti>>
    ELSE Go(after)
Advance(n, after) == AdvanceTo(n, pc, after)

\* An exception leaves the try block of upload_to_drive, or main.
Raise(kind, handler) ==
  /\ pc' = handler /\ exc' = kind /\ raised' = pc
  /\ UNCHANGED <<requests, ti, bi>>
NoRaise == UNCHANGED <<exc, raised>>

\* One batchUpdate of `ops` against `doc`, answered `out`.  The store
\* answers ok only when every request is valid, and then applies them all.
Answer(doc, ops, out, prior) ==
  LET r == ApplyBatch(doc, ops, prior)
  IN [ok |-> r.ok, doc |-> IF out = "ok" THEN r.doc ELSE doc, stale |-> r.stale,
      shifts |-> IF out = "ok" THEN r.shifts ELSE prior]

\* The time.sleep, in tenths of a second, that follows a batchUpdate of
\* `stage` answered `out` before the next statement that is not a sleep.
RestAfter(stage, out, attempt) ==
  CASE stage = "styles" ->
         IF out = "ok" THEN (IF bi + StyleBatchSize < Len(requests) THEN 15 ELSE 0)
         ELSE IF out = "rate" /\ attempt = 1 THEN 600 ELSE 0
    [] stage \in {"format", "bullets"} -> IF out = "ok" THEN 5 ELSE 0
    [] stage = "table_struct" -> IF out = "ok" THEN 15 ELSE 0
    [] stage = "table_fill" -> IF out = "ok" THEN 3 ELSE 0
    [] stage = "table_style" ->
         IF attempt = 1 /\ out = "ok" THEN 15
         ELSE IF attempt = 1 /\ out = "rate" THEN 600 ELSE 0
    [] OTHER -> 0

Issue(stage, ops, out, attempt, prior) ==
  LET r == Answer(dest, ops, out, prior)
  IN /\ out = "ok" => r.ok
     /\ dest' = r.doc
     /\ last' = [stage |-> stage, ops |-> ops, outcome |-> out, attempt |-> attempt,
                 rest |-> RestAfter(stage, out, attempt)]
     /\ staleUse' = (staleUse \/ r.stale)
     /\ layoutShifts' = (IF stage = "text" THEN {}
                         ELSE IF out = "ok" THEN layoutShifts \cup r.shifts
                         ELSE layoutShifts)
     /\ trace' = Append(trace, stage)
NoIssue == UNCHANGED <<dest, last, staleUse, layoutShifts, trace>>

\* --------------------------------------------------------- upload_to_drive
\* drive_service.files().create(...): the docx becomes a new document.
Create ==
  /\ pc = "create"
  /\ \E out \in Outcomes :
       IF out = "ok"
         THEN /\ temp' = "exists"
              /\ dest' = (IF existing THEN dest ELSE DocOf(body))
              /\ Go(Point(IF existing THEN "verify" ELSE "styles_get", <<>>, 0))
              /\ returned_id' = (IF existing THEN returned_id ELSE NewId)
              /\ NoRaise
         ELSE /\ Raise(out, "crashed") /\ UNCHANGED <<temp, dest, returned_id>>
  /\ UNCHANGED <<last, staleUse, layoutShifts, trace>>
  /\ UNCHANGED <<export_vars, file_vars, body, existing, replayed, deletes>>

\* A remote read at statement `here`: on success control moves to `pt`.
Fetch(here, pt) ==
  /\ pc = here
  /\ \E out \in Outcomes :
       IF out = "ok" THEN Go(pt) /\ NoRaise ELSE Raise(out, "except")
  /\ NoIssue
  /\ UNCHANGED <<export_vars, file_vars, returned_id, body, existing, temp, replayed, deletes>>

\* drive_service.files().get(fileId=existing_doc_id, fields='parents')
Verify == Fetch("verify", Point("clear_get", <<>>, 0))

\* clear_document_content: the read and the choice of requests.
ClearGet ==
  Fetch("clear_get",
        IF dest = <<>> THEN Point("copy_get", <<>>, 0)
        ELSE IF ClearDeleteRequests(dest) # <<>>
          THEN Point("clear_delete", ClearDeleteRequests(dest), 0)
          ELSE Point("clear_bullets", ClearBulletRequests, 0))

\* A batch whose failure is not caught where it is issued.
FatalBatch(here, stage, after) ==
  /\ pc = here
  /\ \E out \in Outcomes :
       /\ Issue(stage, requests, out, 1, IF stage \in {"table_struct"} THEN layoutShifts ELSE {})
       /\ IF out = "ok" THEN Go(after) /\ NoRaise ELSE Raise(out, "except")
  /\ UNCHANGED <<export_vars, file_vars, returned_id, body, existing, temp, deletes>>

ClearDelete ==
  /\ FatalBatch("clear_delete", "clear", Point("clear_bullets", ClearBulletRequests, 0))
  /\ UNCHANGED replayed
ClearBullets ==
  /\ FatalBatch("clear_bullets", "clear", Point("copy_get", <<>>, 0))
  /\ UNCHANGED replayed

\* ------------------------------------------- copy_doc_content_to_existing
\* The read of the source document; an empty body returns at once.
CopyGet ==
  Fetch("copy_get",
        IF body = <<>> THEN Point("delete_temp", <<>>, 0)
        ELSE IF Step1Requests(paragraphs) # <<>>
          THEN Point("step1", Step1Requests(paragraphs), 0)
          ELSE AfterStage("text"))

\* Variant: a failure of step 1 is printed as a warning and the copy goes on.
Step1Warn ==
  /\ pc = "step1"
  /\ \E out \in Outcomes : Issue("text", requests, out, 1, {})
  /\ Go(AfterStage("text"))
  /\ NoRaise
  /\ UNCHANGED <<export_vars, file_vars, returned_id, body, existing, temp, replayed, deletes>>

\* Step 1: one insertText of all_text at the end of the body.
Step1 ==
  /\ FatalBatch("step1", "text", AfterStage("text"))
  /\ UNCHANGED replayed

\* A batch of a loop that prints a warning when the store fails and goes on.
WarnBatch(here, stage, n, after) ==
  /\ pc = here
  /\ \E out \in Outcomes : Issue(stage, BatchOf(n), out, 1, layoutShifts)
  /\ Advance(n, after)
  /\ NoRaise
  /\ UNCHANGED <<export_vars, file_vars, returned_id, body, existing, temp, replayed, deletes>>

\* Step 2: format_requests, 50 at a time.
FormatBatch == WarnBatch("format", "format", FormatBatchSize, AfterStage("format"))

\* Step 2b: bullet_requests, 50 at a time.
BulletBatch == WarnBatch("bullets", "bullets", BulletBatchSize, AfterStage("bullets"))

placeholder_start == PlaceholderStart(paragraphs, table_info[ti].text_pos)

\* Step 3: the placeholder is deleted and the empty table inserted.
TableStruct ==
  /\ FatalBatch("table_struct", "table_struct", Point("table_fetch1", <<>>, ti))
  /\ replayed' = Append(replayed, table_info[ti].text_pos)

\* The document is read again and the cell inserts are computed.
TableFetch1 ==
  Fetch("table_fetch1",
        LET t == FindTable(dest, placeholder_start) IN
        IF t # 0 /\ CellInsertRequests(dest, t, table_info[ti].table) # <<>>
          THEN Point("table_fill", CellInsertRequests(dest, t, table_info[ti].table), ti)
          ELSE ToTable(NextTable(ti)))

TableFill ==
  /\ FatalBatch("table_fill", "table_fill", Point("table_fetch2", <<>>, ti))
  /\ UNCHANGED replayed

\* The document is read again and the cell styles are computed.
TableFetch2 ==
  Fetch("table_fetch2",
        LET t == FindTable(dest, placeholder_start) IN
        IF t # 0 /\ CellStyleRequests(dest, t, table_info[ti].table) # <<>>
          THEN Point("table_style", CellStyleRequests(dest, t, table_info[ti].table), ti)
          ELSE Point("table_fetch3", <<>>, ti))

\* style_requests, 20 at a time: a rate limit is waited out and the batch
\* sent again, any other failure is a warning.
TableStyleBatch ==
  /\ pc = "table_style"
  /\ \E out \in Outcomes :
       /\ Issue("table_style", BatchOf(CellStyleBatchSize), out, 1, {})
       /\ IF out = "rate"
            THEN pc' = "table_style_retry" /\ UNCHANGED <<requests, ti, bi>>
            ELSE Advance(CellStyleBatchSize, Point("table_fetch3", <<>>, ti))
  /\ NoRaise
  /\ UNCHANGED <<export_vars, file_vars, returned_id, body, existing, temp, replayed, deletes>>

TableStyleRetry ==
  /\ pc = "table_style_retry"
  /\ \E out \in Outcomes :
       /\ Issue("table_style", BatchOf(CellStyleBatchSize), out, 2, {})
       /\ IF out = "ok"
            THEN AdvanceTo(CellStyleBatchSize, "table_style", Point("table_fetch3", <<>>, ti)) /\ NoRaise
            ELSE Raise(out, "except")
  /\ UNCHANGED <<export_vars, file_vars, returned_id, body, existing, temp, replayed, deletes>>

\* The document is read once more for the font size of the cells.
TableFetch3 ==
  Fetch("table_fetch3",
        LET t == FindTable(dest, placeholder_start) IN
        IF t # 0 /\ FontRequests(dest, t) # <<>>
          THEN Point("table_font", FontRequests(dest, t), ti)
          ELSE ToTable(NextTable(ti)))

TableFont ==
  /\ FatalBatch("table_font", "table_font", ToTable(NextTable(ti)))
  /\ UNCHANGED replayed

\* ------------------------------------------- upload_to_drive, continued
\* drive_service.files().delete(fileId=new_doc_id): the answer is ok only
\* when the document is there.
DeleteAnswer(out) ==
  /\ out = "ok" => temp = "exists"
  /\ temp' = (IF out = "ok" THEN "deleted" ELSE temp)
  /\ deletes' = deletes + 1

\* Variant: a failed deletion of the uploaded document is passed over.
DeleteTempIgnoreFailure ==
  /\ pc = "delete_temp"
  /\ \E out \in Outcomes : DeleteAnswer(out)
  /\ Go(Point("final_get", <<>>, 0)) /\ NoRaise
  /\ NoIssue
  /\ UNCHANGED <<export_vars, file_vars, returned_id, body, existing, replayed>>

\* After the copy: the uploaded document is deleted.
DeleteTemp ==
  /\ pc = "delete_temp"
  /\ \E out \in Outcomes :
       /\ DeleteAnswer(out)
       /\ IF out = "ok" THEN Go(Point("final_get", <<>>, 0)) /\ NoRaise
          ELSE Raise(out, "except")
  /\ NoIssue
  /\ UNCHANGED <<export_vars, file_vars, returned_id, body, existing, replayed>>

\* The webViewLink of the existing document is read and the id returned.
FinalGet ==
  /\ pc = "final_get"
  /\ \E out \in Outcomes :
       IF out = "ok"
         THEN Go(Point("styles_get", <<>>, 0)) /\ returned_id' = OldId /\ NoRaise
         ELSE Raise(out, "except") /\ UNCHANGED returned_id
  /\ NoIssue
  /\ UNCHANGED <<export_vars, file_vars, body, existing, temp, replayed, deletes>>

\* Variant: the handler exits without deleting the uploaded document.
ExceptNoCleanup ==
  /\ pc = "except"
  /\ pc' = "exited"
  /\ NoIssue
  /\ UNCHANGED <<export_vars, file_vars, returned_id, body, existing, temp, deletes, ti, requests, bi, exc, raised, replayed>>

\* Variant: after the cleanup control leaves the handler and reaches the
\* return of the uploaded document's id.
ExceptFallsThrough ==
  /\ pc = "except"
  /\ \E out \in Outcomes : DeleteAnswer(out)
  /\ pc' = "styles_get" /\ returned_id' = NewId
  /\ NoIssue
  /\ UNCHANGED <<export_vars, file_vars, body, existing, ti, requests, bi, exc, raised, replayed>>

\* except Exception: the uploaded document is deleted, whatever the answer,
\* and the process exits with status 1.
Except ==
  /\ pc = "except"
  /\ \E out \in Outcomes : DeleteAnswer(out)
  /\ pc' = "exited"
  /\ NoIssue
  /\ UNCHANGED <<export_vars, file_vars, returned_id, body, existing, ti, requests, bi, exc, raised, replayed>>

\* --------------------------------------------- main: apply_document_styles
StylesGet ==
  /\ pc = "styles_get"
  /\ \E out \in Outcomes :
       IF out = "ok"
         THEN /\ Go(IF StyleRequests(dest) # <<>>
                      THEN Point("styles", StyleRequests(dest), 0)
                      ELSE Point("save_id", <<>>, 0))
              /\ NoRaise
         ELSE Raise(out, "crashed")
  /\ NoIssue
  /\ UNCHANGED <<export_vars, file_vars, returned_id, body, existing, temp, replayed, deletes>>

\* Variant: a failure other than a rate limit is printed as a warning and
\* the loop goes on.
StylesBatchWarn ==
  /\ pc = "styles"
  /\ \E out \in Outcomes :
       /\ Issue("styles", BatchOf(StyleBatchSize), out, 1, {})
       /\ IF out = "rate"
            THEN pc' = "styles_retry" /\ UNCHANGED <<requests, ti, bi>>
            ELSE Advance(StyleBatchSize, Point("save_id", <<>>, 0))
       /\ NoRaise
  /\ UNCHANGED <<export_vars, file_vars, returned_id, body, existing, temp, replayed, deletes>>

\* requests, 30 at a time: a rate limit is waited out and the batch sent
\* again, any other failure is raised.
StylesBatch ==
  /\ pc = "styles"
  /\ \E out \in Outcomes :
       /\ Issue("styles", BatchOf(StyleBatchSize), out, 1, {})
       /\ CASE out = "ok" -> Advance(StyleBatchSize, Point("save_id", <<>>, 0)) /\ NoRaise
            [] out = "rate" -> pc' = "styles_retry" /\ UNCHANGED <<requests, ti, bi>> /\ NoRaise
            [] OTHER -> Raise(out, "crashed")
  /\ UNCHANGED <<export_vars, file_vars, returned_id, body, existing, temp, replayed, deletes>>

StylesRetry ==
  /\ pc = "styles_retry"
  /\ \E out \in Outcomes :
       /\ Issue("styles", BatchOf(StyleBatchSize), out, 2, {})
       /\ IF out = "ok"
            THEN AdvanceTo(StyleBatchSize, "styles", Point("save_id", <<>>, 0)) /\ NoRaise
            ELSE Raise(out, "crashed")
  /\ UNCHANGED <<export_vars, file_vars, returned_id, body, existing, temp, replayed, deletes>>

\* save_doc_id_to_markdown and the end of main.
SaveId ==
  /\ pc = "save_id"
  /\ pc' = "done"
  /\ NoIssue
  /\ file' = save_doc_id_to_markdown(file, returned_id)
  /\ saved' = Append(saved, returned_id)
  /\ UNCHANGED <<export_vars, returned_id, body, existing, temp, ti, requests, bi, exc, raised, replayed, deletes>>

Next ==
  \/ Create \/ Verify \/ ClearGet \/ ClearDelete \/ ClearBullets
  \/ CopyGet \/ Step1 \/ FormatBatch \/ BulletBatch
  \/ TableStruct \/ TableFetch1 \/ TableFill \/ TableFetch2
  \/ TableStyleBatch \/ TableStyleRetry \/ TableFetch3 \/ TableFont
  \/ DeleteTemp \/ FinalGet \/ Except
  \/ StylesGet \/ StylesBatch \/ StylesRetry \/ SaveId

Spec == Init /\ [][Next]_vars

\* =================================================== gdocs-export/gdoc2md.py
\* Python strings are sequences of one-character strings.
\* str.rstrip()
RStrip(s) ==
  SubSeq(s, 1, CHOOSE i \in 0..Len(s) :
                 /\ i = 0 \/ s[i] \notin Whitespace
                 /\ \A j \in (i + 1)..Len(s) : s[j] \in Whitespace)
\* str.strip()
Strip(s) ==
  LET r == RStrip(s)
      k == CHOOSE i \in 1..(Len(r) + 1) :
             /\ i = Len(r) + 1 \/ r[i] \notin Whitespace
             /\ \A j \in 1..(i - 1) : r[j] \in Whitespace
  IN SubSeq(r, k, Len(r))
\* sep.join(parts)
Join(sep, parts) ==
  Flatten([i \in 1..Len(parts) |-> IF i = 1 THEN parts[i] ELSE sep \o parts[i]])
\* s.replace(ch, rep)
Replace(s, ch, rep) == Flatten([i \in 1..Len(s) |-> IF s[i] = ch THEN rep ELSE <<s[i]>>])
\* s * n
Times(s, n) == Flatten([i \in 1..n |-> s])
\* s.split(ch): the pieces of s between the occurrences of ch.
Split(s, ch) ==
  LET cuts == {0, Len(s) + 1} \cup {i \in 1..Len(s) : s[i] = ch}
      nth(k) == CHOOSE i \in cuts : Cardinality({j \in cuts : j < i}) = k
  IN [k \in 1..(Cardinality(cuts) - 1) |-> SubSeq(s, nth(k - 1) + 1, nth(k) - 1)]

\* ------------------------------------------------- the exported elements
NoLink == [present |-> FALSE, url |-> <<>>]
TextStyle(b, i, u, l) == [bold |-> b, italic |-> i, underline |-> u, link |-> l]
TextRun(content, style) == [textRun |-> TRUE, content |-> content, textStyle |-> style]
PlainStyle == TextStyle(FALSE, FALSE, FALSE, NoLink)
\* An element of a paragraph that is no text run.
InlineObject == [textRun |-> FALSE, content |-> <<>>, textStyle |-> PlainStyle]

\* ------------------------------------------- convert_paragraph_to_markdown
extract_text_runs(el) == IF el.textRun THEN el.content ELSE <<>>
\* The url of the link; None, here the empty string, when the link has none.
get_link(style) == IF style.link.present THEN style.link.url ELSE <<>>

\* Variant: the link is wrapped before the underline.
formatted_text_link_inside(el) ==
  LET text == extract_text_runs(el)
      style == el.textStyle
      emphasis ==
        IF style.bold /\ style.italic THEN <<"*", "*", "*">> \o text \o <<"*", "*", "*">>
        ELSE IF style.bold THEN <<"*", "*">> \o text \o <<"*", "*">>
        ELSE IF style.italic THEN <<"*">> \o text \o <<"*">>
        ELSE text
      linked ==
        IF get_link(style) # <<>>
          THEN <<"[">> \o emphasis \o <<"]", "(">> \o get_link(style) \o <<")">>
          ELSE emphasis
  IN IF style.underline THEN <<"<", "u", ">">> \o linked \o <<"<", "/", "u", ">">>
     ELSE linked

\* formatted_text of one element whose text is not empty.
formatted_text(el) ==
  LET text == extract_text_runs(el)
      style == el.textStyle
      emphasis ==
        IF style.bold /\ style.italic THEN <<"*", "*", "*">> \o text \o <<"*", "*", "*">>
        ELSE IF style.bold THEN <<"*", "*">> \o text \o <<"*", "*">>
        ELSE IF style.italic THEN <<"*">> \o text \o <<"*">>
        ELSE text
      underlined ==
        IF style.underline THEN <<"<", "u", ">">> \o emphasis \o <<"<", "/", "u", ">">>
        ELSE emphasis
  IN IF get_link(style) # <<>>
       THEN <<"[">> \o underlined \o <<"]", "(">> \o get_link(style) \o <<")">>
       ELSE underlined

\* text = ''.join(text_parts).rstrip()
paragraph_text(para) ==
  RStrip(Flatten([i \in 1..Len(para.elements) |->
                    IF extract_text_runs(para.elements[i]) = <<>> THEN <<>>
                    ELSE formatted_text(para.elements[i])]))

level_map ==
  [n \in {"HEADING_1", "HEADING_2", "HEADING_3", "HEADING_4", "HEADING_5", "HEADING_6"} |->
     CASE n = "HEADING_1" -> 1 [] n = "HEADING_2" -> 2 [] n = "HEADING_3" -> 3
       [] n = "HEADING_4" -> 4 [] n = "HEADING_5" -> 5 [] OTHER -> 6]
\* named_style.startswith('HEADING_'), over the names the inputs carry.
StartsWithHeading(named_style) == named_style \in DOMAIN level_map \cup {"HEADING_7"}
heading_level(named_style) ==
  IF named_style \in DOMAIN level_map THEN level_map[named_style] ELSE 1

\* Variant: the bullet is looked at before the heading.
convert_paragraph_bullet_first(para) ==
  LET text == paragraph_text(para)
      nesting_level == para.bullet.nestingLevel
  IN IF para.bullet.present
       THEN Times(<<" ", " ">>, nesting_level)
            \o (IF nesting_level = 0 THEN <<"-", " ">> ELSE <<" ", " ", "-", " ">>)
            \o text \o <<"\n">>
     ELSE IF StartsWithHeading(para.namedStyleType)
       THEN Times(<<"#">>, heading_level(para.namedStyleType)) \o <<" ">> \o text \o <<"\n">>
     ELSE IF Strip(text) # <<>> THEN text \o <<"\n">>
     ELSE <<"\n">>

convert_paragraph_to_markdown(para) ==
  LET text == paragraph_text(para)
      nesting_level == para.bullet.nestingLevel
  IN IF StartsWithHeading(para.namedStyleType)
       THEN Times(<<"#">>, heading_level(para.namedStyleType)) \o <<" ">> \o text \o <<"\n">>
     ELSE IF para.bullet.present
       THEN Times(<<" ", " ">>, nesting_level)
            \o (IF nesting_level = 0 THEN <<"-", " ">> ELSE <<" ", " ", "-", " ">>)
            \o text \o <<"\n">>
     ELSE IF Strip(text) # <<>> THEN text \o <<"\n">>
     ELSE <<"\n">>

\* ----------------------------------------------- convert_table_to_markdown
\* A table is its rows, a row its cells, a cell its content paragraphs, a
\* content paragraph its elements.
cell_text(cell) ==
  Strip(Join(<<" ">>, Flatten([p \in 1..Len(cell) |->
                                 [e \in 1..Len(cell[p]) |-> extract_text_runs(cell[p][e])]])))
table_rows(rows) ==
  [r \in 1..Len(rows) |-> [c \in 1..Len(rows[r]) |-> cell_text(rows[r][c])]]

\* Variant: the header row alone decides the number of columns.
num_cols_of_header(rows) == Len(rows[1])

\* num_cols = max(len(row) for row in table_rows)
num_cols(rows) ==
  CHOOSE n \in {Len(rows[r]) : r \in 1..Len(rows)} :
    \A r \in 1..Len(rows) : Len(rows[r]) <= n
\* Variant: pipes are left as they are.
escape_cell_newlines_only(cell) == Replace(cell, "\n", <<" ">>)
escape_cell(cell) == Replace(Replace(cell, "|", <<"\\", "|">>), "\n", <<" ">>)
\* while len(row) < num_cols: row.append('')
Padded(row, n) == row \o [i \in 1..(n - Len(row)) |-> <<>>]
RowLine(cells) ==
  <<"|", " ">> \o Join(<<" ", "|", " ">>, cells) \o <<" ", "|">>
convert_table_to_markdown(table) ==
  IF table.tableRows = <<>> THEN <<>>
  ELSE LET rows == table_rows(table.tableRows)
           n == num_cols(rows)
           line(r) == RowLine([c \in 1..Len(Padded(rows[r], n)) |->
                                 escape_cell(Padded(rows[r], n)[c])])
       IN IF n = 0 THEN <<>>
          ELSE Join(<<"\n">>,
                    <<line(1), RowLine([c \in 1..n |-> <<"-", "-", "-">>])>>
                    \o [r \in 1..(Len(rows) - 1) |-> line(r + 1)])
               \o <<"\n", "\n">>

\* ------------------------------------------------------------ the inputs
UrlLink == [present |-> TRUE, url |-> <<"u">>]
\* A link to a heading or a bookmark carries no url.
HeadingLink == [present |-> TRUE, url |-> <<>>]
TextStyles ==
  {TextStyle(b, i, u, l) : b \in BOOLEAN, i \in BOOLEAN, u \in BOOLEAN,
                           l \in {NoLink, UrlLink, HeadingLink}}
Contents == {<<"t">>, <<"t", "\n">>, <<"\n">>}
Runs == {TextRun(c, st) : c \in Contents, st \in TextStyles} \cup {InlineObject}
FewRuns == {TextRun(<<"t">>, TextStyle(TRUE, FALSE, FALSE, UrlLink)),
            TextRun(<<"t", " ">>, PlainStyle),
            TextRun(<<"t", "\n">>, TextStyle(FALSE, TRUE, TRUE, NoLink))}
ElementLists ==
  {<<>>} \cup {<<r>> : r \in Runs} \cup UNION {[1..n -> FewRuns] : n \in 2..MaxRuns}
NamedStyles == {"NORMAL_TEXT", "HEADING_7"} \cup DOMAIN level_map
ExportBullets ==
  {[present |-> FALSE, nestingLevel |-> 0]}
  \cup {[present |-> TRUE, nestingLevel |-> n] : n \in 0..MaxNesting}
ExportParagraphs ==
  {[kind |-> "paragraph", elements |-> els, namedStyleType |-> ns, bullet |-> b] :
     els \in ElementLists, ns \in NamedStyles, b \in ExportBullets}

CellOf(texts) == [p \in 1..Len(texts) |-> <<TextRun(texts[p], PlainStyle)>>]
ExportCells == {CellOf(<< <<"a", "|", "b", "\n">> >>),
                CellOf(<< <<"a", "\n">>, <<"b", "\n">> >>),
                CellOf(<< <<"\\", "|", "\n">> >>),
                CellOf(<< <<"\n">> >>)}
\* The cells of the tables of more than one row.
FewCells == {CellOf(<< <<"a", "|", "b", "\n">> >>), CellOf(<< <<"\n">> >>)}
ExportTables ==
  {[kind |-> "table", tableRows |-> rows] :
     rows \in {<<>>} \cup {<<row>> : row \in SeqsUpTo(ExportCells, MaxCols)}
               \cup UNION {[1..n -> SeqsUpTo(FewCells, MaxCols)] : n \in 2..MaxRows}}

\* No upload is running.
IdleUpload ==
  /\ body = <<>> /\ existing = FALSE /\ dest = <<>> /\ temp = "none" /\ pc = "idle"
  /\ ti = 0 /\ requests = <<>> /\ bi = 0 /\ last = NoBatch /\ exc = "none"
  /\ raised = "" /\ layoutShifts = {} /\ staleUse = FALSE /\ replayed = <<>>
  /\ trace = <<>> /\ deletes = 0 /\ returned_id = <<>>
IdleFile == file = <<>> /\ saved = <<>>

InitMd ==
  /\ element \in ExportParagraphs \cup ExportTables
  /\ rendered = FALSE
  /\ markdown = <<>>
  /\ IdleDocument /\ IdleText /\ IdleDisk /\ IdleUpload /\ IdleFile

ConvertParagraph ==
  /\ ~rendered /\ element.kind = "paragraph"
  /\ markdown' = convert_paragraph_to_markdown(element)
  /\ rendered' = TRUE
  /\ UNCHANGED <<element, document_vars, text_vars, disk_vars, upload_vars, file_vars>>

ConvertTable ==
  /\ ~rendered /\ element.kind = "table"
  /\ markdown' = convert_table_to_markdown(element)
  /\ rendered' = TRUE
  /\ UNCHANGED <<element, document_vars, text_vars, disk_vars, upload_vars, file_vars>>

NextMd == ConvertParagraph \/ ConvertTable
SpecMd == InitMd /\ [][NextMd]_vars

\* ------------------------------------------------------------ get_all_tabs
\* A tab: tabProperties.title when it has one, the body content of its
\* documentTab when it has one, and its childTabs.
Tab(hasTitle, title, hasDocumentTab, content, childTabs) ==
  [hasTitle |-> hasTitle, title |-> title, hasDocumentTab |-> hasDocumentTab,
   content |-> content, childTabs |-> childTabs]
UntitledTab == <<"U", "n", "t", "i", "t", "l", "e", "d", " ", "T", "a", "b">>
\* tab_props.get('title', 'Untitled Tab')
tab_title(tab) == IF tab.hasTitle THEN tab.title ELSE UntitledTab
\* if 'documentTab' in tab: all_tabs.append((tab_title, tab['documentTab']))
TabEntry(tab) ==
  IF tab.hasDocumentTab THEN <<[title |-> tab_title(tab), content |-> tab.content]>>
  ELSE <<>>

\* Variant: the tabs below the child tabs are not visited.
get_all_tabs_two_levels(tabs) ==
  Flatten([i \in 1..Len(tabs) |->
             TabEntry(tabs[i])
             \o Flatten([j \in 1..Len(tabs[i].childTabs) |-> TabEntry(tabs[i].childTabs[j])])])

RECURSIVE get_all_tabs(_)
get_all_tabs(tabs) ==
  Flatten([i \in 1..Len(tabs) |->
             TabEntry(tabs[i])
             \o Flatten([j \in 1..Len(tabs[i].childTabs) |->
                           TabEntry(tabs[i].childTabs[j])
                           \o get_all_tabs(tabs[i].childTabs[j].childTabs)])])

\* --------------------------------------------- convert_document_to_markdown
MainDocument == <<"M", "a", "i", "n", " ", "D", "o", "c", "u", "m", "e", "n", "t">>
\* all_content: the main body when it has content, then the tabs that have
\* content; the main body alone when nothing has content.
all_content(d) ==
  LET main == IF d.body # <<>> THEN <<[title |-> MainDocument, content |-> d.body]>>
              ELSE <<>>
      tabs == SelectSeq(get_all_tabs(d.tabs), LAMBDA t : t.content # <<>>)
  IN IF main \o tabs = <<>> THEN <<[title |-> MainDocument, content |-> d.body]>>
     ELSE main \o tabs

SectionBreak == [kind |-> "sectionBreak"]
\* An element that is no paragraph, table or section break.
TableOfContents == [kind |-> "tableOfContents"]
HorizontalRule == <<"\n", "-", "-", "-", "\n", "\n">>
\* What one element appends to markdown_parts.
MarkdownParts(el) ==
  CASE el.kind = "paragraph" -> <<convert_paragraph_to_markdown(el)>>
    [] el.kind = "table" -> <<convert_table_to_markdown(el)>>
    [] el.kind = "sectionBreak" -> <<HorizontalRule>>
    [] OTHER -> <<>>
ContentMarkdown(content) ==
  Flatten(Flatten([i \in 1..Len(content) |-> MarkdownParts(content[i])]))
Section(title, text) == [title |-> title, body |-> text]

\* Variant: an entry whose markdown is blank keeps its section.
SplitByTabsKeepBlank(entries) ==
  LET tab_sections ==
        [i \in 1..Len(entries) |->
           Section(entries[i].title, ContentMarkdown(entries[i].content))]
  IN IF tab_sections # <<>> THEN tab_sections ELSE <<Section(<<>>, <<>>)>>

\* split_by_tabs: one section for every entry whose markdown is not blank.
SplitByTabs(entries) ==
  LET tab_sections ==
        SelectSeq([i \in 1..Len(entries) |->
                     Section(entries[i].title, ContentMarkdown(entries[i].content))],
                  LAMBDA sec : Strip(sec.body) # <<>>)
  IN IF tab_sections # <<>> THEN tab_sections ELSE <<Section(<<>>, <<>>)>>

\* Neither flag: everything in one section without a title.
SingleFile(entries) ==
  <<Section(<<>>,
            Flatten([i \in 1..Len(entries) |->
                       (IF Len(entries) > 1
                          THEN <<"\n", "#", " ">> \o entries[i].title \o <<"\n", "\n">>
                          ELSE <<>>)
                       \o ContentMarkdown(entries[i].content)]))>>

\* re.sub(r'\*\*?([^*]+)\*\*?', r'\1', s): the match that starts at i, as
\* [from, to] of the group and the end of the match; no match: end = 0.
MarkerMatch(s, i) ==
  LET from == IF i + 1 <= Len(s) /\ s[i + 1] = "*" THEN i + 2 ELSE i + 1
      stars == {k \in from..Len(s) : s[k] = "*"}
      close == IF stars = {} THEN 0 ELSE CHOOSE k \in stars : \A m \in stars : k <= m
  IN IF s[i] = "*" /\ from <= Len(s) /\ s[from] # "*" /\ close # 0
       THEN [from |-> from, to |-> close - 1,
             end |-> IF close + 1 <= Len(s) /\ s[close + 1] = "*" THEN close + 1 ELSE close]
       ELSE [from |-> 0, to |-> 0, end |-> 0]
RECURSIVE StripMarkersFrom(_, _)
StripMarkersFrom(s, i) ==
  IF i > Len(s) THEN <<>>
  ELSE LET m == MarkerMatch(s, i) IN
       IF m.end # 0 THEN SubSeq(s, m.from, m.to) \o StripMarkersFrom(s, m.end + 1)
       ELSE <<s[i]>> \o StripMarkersFrom(s, i + 1)
UntitledSection == <<"U", "n", "t", "i", "t", "l", "e", "d", " ", "S", "e", "c", "t", "i", "o", "n">>
Introduction == <<"I", "n", "t", "r", "o", "d", "u", "c", "t", "i", "o", "n">>
\* The title an H1 paragraph gives its section.
HeadingTitle(para) ==
  LET raw_title ==
        Strip(Flatten([i \in 1..Len(para.elements) |-> extract_text_runs(para.elements[i])]))
      title == Strip(StripMarkersFrom(raw_title, 1))
  IN IF title # <<>> THEN title ELSE UntitledSection

\* current_section_title: None, or a string.
None == [isNone |-> TRUE, text |-> <<>>]
Title(text) == [isNone |-> FALSE, text |-> text]
\* current_section_title or default
TitleOr(title, default) == IF title.isNone \/ title.text = <<>> THEN default ELSE title.text
\* Variant: a section in progress whose title was never set is dropped.
FlushedWhenTitled(st, default) ==
  IF st.current_section # <<>> /\ ~st.current_section_title.isNone
    THEN Append(st.sections,
                Section(TitleOr(st.current_section_title, default), Flatten(st.current_section)))
    ELSE st.sections

\* if current_section: sections.append((title, ''.join(current_section)))
Flushed(st, default) ==
  IF st.current_section # <<>>
    THEN Append(st.sections,
                Section(TitleOr(st.current_section_title, default), Flatten(st.current_section)))
    ELSE st.sections

\* The first loop: the tab titles, when there is more than one entry.
RECURSIVE TabTitlesFrom(_, _, _)
TabTitlesFrom(entries, i, st) ==
  IF i > Len(entries) THEN st
  ELSE TabTitlesFrom(entries, i + 1,
         IF Len(entries) > 1 /\ entries[i].content # <<>>
           THEN [st EXCEPT !.sections = Flushed(st, Introduction),
                           !.current_section_title = Title(entries[i].title),
                           !.current_section = <<>>]
           ELSE st)

\* Variant: an H1 paragraph is appended to the section in progress like any
\* other paragraph.
SplitStepHeadingAppended(st, el) ==
  CASE el.kind = "paragraph" ->
         [st EXCEPT !.current_section = Append(st.current_section,
                                               convert_paragraph_to_markdown(el)),
                    !.current_section_title =
                      IF ~st.has_content_before_first_heading
                         /\ st.current_section_title.isNone
                        THEN Title(Introduction) ELSE st.current_section_title]
    [] el.kind = "table" ->
         [st EXCEPT !.current_section = Append(st.current_section,
                                               convert_table_to_markdown(el))]
    [] el.kind = "sectionBreak" ->
         [st EXCEPT !.sections = Flushed(st, UntitledSection),
                    !.current_section_title = Title(UntitledSection),
                    !.current_section = <<>>]
    [] OTHER -> st

\* Variant: a section break flushes the section in progress and leaves its
\* title to the section that follows.
SplitStepBreakKeepsTitle(st, el) ==
  CASE el.kind = "paragraph" /\ el.namedStyleType = "HEADING_1" ->
         [sections |-> Flushed(st, Introduction),
          current_section_title |-> Title(HeadingTitle(el)),
          current_section |-> <<convert_paragraph_to_markdown(el)>>,
          has_content_before_first_heading |-> TRUE]
    [] el.kind = "paragraph" /\ el.namedStyleType # "HEADING_1" ->
         [st EXCEPT !.current_section = Append(st.current_section,
                                               convert_paragraph_to_markdown(el)),
                    !.current_section_title =
                      IF ~st.has_content_before_first_heading
                         /\ st.current_section_title.isNone
                        THEN Title(Introduction) ELSE st.current_section_title]
    [] el.kind = "table" ->
         [st EXCEPT !.current_section = Append(st.current_section,
                                               convert_table_to_markdown(el))]
    [] el.kind = "sectionBreak" ->
         [st EXCEPT !.sections = Flushed(st, UntitledSection),
                    !.current_section = <<>>]
    [] OTHER -> st

\* The second loop: one element of the stream.
SplitStep(st, el) ==
  CASE el.kind = "paragraph" /\ el.namedStyleType = "HEADING_1" ->
         [sections |-> Flushed(st, Introduction),
          current_section_title |-> Title(HeadingTitle(el)),
          current_section |-> <<convert_paragraph_to_markdown(el)>>,
          has_content_before_first_heading |-> TRUE]
    [] el.kind = "paragraph" /\ el.namedStyleType # "HEADING_1" ->
         [st EXCEPT !.current_section = Append(st.current_section,
                                               convert_paragraph_to_markdown(el)),
                    !.current_section_title =
                      IF ~st.has_content_before_first_heading
                         /\ st.current_section_title.isNone
                        THEN Title(Introduction) ELSE st.current_section_title]
    [] el.kind = "table" ->
         [st EXCEPT !.current_section = Append(st.current_section,
                                               convert_table_to_markdown(el))]
    [] el.kind = "sectionBreak" ->
         [st EXCEPT !.sections = Flushed(st, UntitledSection),
                    !.current_section_title = Title(UntitledSection),
                    !.current_section = <<>>]
    [] OTHER -> st
RECURSIVE SplitFrom(_, _, _)
SplitFrom(stream, i, st) ==
  IF i > Len(stream) THEN st ELSE SplitFrom(stream, i + 1, SplitStep(st, stream[i]))

\* split_by_sections.
SplitBySections(entries) ==
  LET start == [sections |-> <<>>, current_section |-> <<>>,
                current_section_title |-> None,
                has_content_before_first_heading |-> FALSE]
      stream == Flatten([i \in 1..Len(entries) |-> entries[i].content])
      end == SplitFrom(stream, 1, TabTitlesFrom(entries, 1, start))
      sections == Flushed(end, UntitledSection)
  IN IF sections # <<>> THEN sections ELSE <<Section(Introduction, <<>>)>>

convert_document_to_markdown(d, split_by_sections, split_by_tabs) ==
  IF split_by_tabs THEN SplitByTabs(all_content(d))
  ELSE IF ~split_by_sections THEN SingleFile(all_content(d))
  ELSE SplitBySections(all_content(d))

\* ------------------------------------------------------------ the inputs
NoExportBullet == [present |-> FALSE, nestingLevel |-> 0]
PlainParagraph(ns, text) ==
  [kind |-> "paragraph", elements |-> <<TextRun(text, PlainStyle)>>,
   namedStyleType |-> ns, bullet |-> NoExportBullet]
H1(text) == PlainParagraph("HEADING_1", text)
P(text) == PlainParagraph("NORMAL_TEXT", text)
OneCellTable == [kind |-> "table", tableRows |-> << <<CellOf(<< <<"c", "\n">> >>)>> >>]
StreamElements ==
  {H1(<<"A", "\n">>), H1(<<"\n">>), H1(<<"*", "B", "*", "\n">>), P(<<"x", "\n">>),
   OneCellTable, SectionBreak, TableOfContents}
FewElements == {H1(<<"A", "\n">>), P(<<"x", "\n">>), OneCellTable, SectionBreak}
Document(tabs, content) == [tabs |-> tabs, body |-> content]
LeafTab(title, content) == Tab(TRUE, title, TRUE, content, <<>>)

\* One tab, any stream.
OneTabDocuments ==
  {Document(<<LeafTab(<<"T">>, stream)>>, <<>>) :
     stream \in SeqsUpTo(StreamElements, MaxStream)}
\* No tab: the content is the body of the document.
NoTabDocuments == {Document(<<>>, stream) : stream \in SeqsUpTo(FewElements, MaxTabStream)}
\* Two tabs, with and without content in the body of the document.
TwoTabDocuments ==
  {Document(<<LeafTab(<<"T", "1">>, s1), LeafTab(<<"T", "2">>, s2)>>, main) :
     s1 \in SeqsUpTo(FewElements, MaxTabStream),
     s2 \in SeqsUpTo(FewElements, MaxTabStream),
     main \in {<<>>, <<P(<<"m", "\n">>)>>}}
\* Two tabs, one of them with content that renders to a blank body.
BlankContents ==
  {<<P(<<"\n">>)>>, <<TableOfContents>>, <<P(<<" ", "\n">>), TableOfContents>>}
BlankTabDocuments ==
  UNION {{Document(<<LeafTab(<<"T", "1">>, blank), LeafTab(<<"T", "2">>, s2)>>, <<>>),
          Document(<<LeafTab(<<"T", "1">>, s2), LeafTab(<<"T", "2">>, blank)>>, <<>>)} :
           blank \in BlankContents, s2 \in SeqsUpTo(FewElements, MaxTabStream)}
EmptyTable22 ==
  [kind |-> "table",
   tableRows |-> << <<CellOf(<< <<"\n">> >>), CellOf(<< <<"\n">> >>)>>,
                    <<CellOf(<< <<"\n">> >>), CellOf(<< <<"\n">> >>)>> >>]
NotesDocument ==
  Document(<<LeafTab(<<"T">>,
                     <<H1(<<"N", "o", "t", "e", "s", "\n">>),
                       [kind |-> "paragraph",
                        elements |-> <<TextRun(<<"h", "i">>,
                                               TextStyle(TRUE, TRUE, FALSE, NoLink))>>,
                        namedStyleType |-> "NORMAL_TEXT", bullet |-> NoExportBullet],
                       EmptyTable22>>)>>, <<>>)
IntroDocument ==
  Document(<<LeafTab(<<"T">>,
                     <<H1(<<"I", "n", "t", "r", "o", " ", "t", "e", "x", "t", "\n">>),
                       H1(<<"A", "\n">>), P(<<"x", "\n">>),
                       H1(<<"B", "\n">>), P(<<"y", "\n">>)>>)>>, <<>>)
StreamDocuments ==
  OneTabDocuments \cup NoTabDocuments \cup TwoTabDocuments \cup BlankTabDocuments
  \cup {NotesDocument, IntroDocument}

\* The trees of tabs: the tab at `path` with or without a title and a
\* documentTab, over no child, one subtree, or a subtree beside a leaf
\* whose documentTab has no content.
RECURSIVE TabTrees(_, _)
TabTrees(path, levels) ==
  LET leaf(p) == LeafTab(p, <<>>)
      below(p) == TabTrees(p, levels - 1)
      children ==
        IF levels = 1 THEN {<<>>}
        ELSE {<<>>}
             \cup {<<t>> : t \in below(path \o <<"1">>)}
             \cup {<<t, leaf(path \o <<"2">>)>> : t \in below(path \o <<"1">>)}
             \cup {<<leaf(path \o <<"1">>), t>> : t \in below(path \o <<"2">>)}
  IN {Tab(k[1], path, k[2], <<P(path)>>, c) :
        k \in {<<TRUE, TRUE>>, <<FALSE, TRUE>>, <<TRUE, FALSE>>}, c \in children}
\* A chain of tabs deeper than the trees, every other tab without a documentTab.
RECURSIVE ChainTab(_, _)
ChainTab(path, levels) ==
  Tab(TRUE, path, levels % 2 = 0, <<P(path)>>,
      IF levels = 1 THEN <<>> ELSE <<ChainTab(path \o <<"1">>, levels - 1)>>)
TreeDocuments ==
  {Document(<<t>>, <<>>) : t \in TabTrees(<<"1">>, MaxTabLevels)}
  \cup {Document(<<ChainTab(<<"1">>, MaxTabLevels + 3), LeafTab(<<"2">>, <<P(<<"2">>)>>)>>, <<>>)}

Calls ==
  {Call("convert_document_to_markdown", s, t, FALSE) : s \in BOOLEAN, t \in BOOLEAN}
  \cup {Call("all_content", FALSE, FALSE, FALSE)}

InitDoc ==
  /\ \/ document \in StreamDocuments /\ call \in Calls
     \/ document \in TreeDocuments
        /\ call \in {Call("get_all_tabs", FALSE, FALSE, FALSE),
                     Call("all_content", FALSE, FALSE, FALSE)}
  /\ result = <<>>
  /\ IdleElement /\ IdleText /\ IdleDisk /\ IdleUpload /\ IdleFile

Return(value) ==
  /\ result' = value
  /\ call' = [call EXCEPT !.returned = TRUE]
  /\ UNCHANGED <<document, element_vars, text_vars, disk_vars, upload_vars, file_vars>>

GetAllTabs ==
  /\ call.fn = "get_all_tabs" /\ ~call.returned
  /\ Return(get_all_tabs(document.tabs))

\* The first part of convert_document_to_markdown: all_content.
CollectContent ==
  /\ call.fn = "all_content" /\ ~call.returned
  /\ Return(all_content(document))

ConvertDocument ==
  /\ call.fn = "convert_document_to_markdown" /\ ~call.returned
  /\ Return(convert_document_to_markdown(document, call.split_by_sections,
                                         call.split_by_tabs))

\* ------------------------------------------------------- sanitize_filename
InvalidChars == {"<", ">", ":", "\"", "/", "\\", "|", "?", "*"}
UpperCaseLetters ==
  <<"A", "B", "C", "D", "E", "F", "G", "H", "I", "J", "K", "L", "M", "N", "O", "P", "Q", "R", "S", "T", "U", "V", "W", "X", "Y", "Z">>
LowerCaseLetters ==
  <<"a", "b", "c", "d", "e", "f", "g", "h", "i", "j", "k", "l", "m", "n", "o", "p", "q", "r", "s", "t", "u", "v", "w", "x", "y", "z">>
\* str.lower(), one character.
Lower(c) ==
  IF \E k \in 1..Len(UpperCaseLetters) : UpperCaseLetters[k] = c
    THEN LowerCaseLetters[CHOOSE k \in 1..Len(UpperCaseLetters) : UpperCaseLetters[k] = c]
    ELSE c
\* re.sub(r'[S]+', rep, s): every run of characters of S becomes one rep.
SubRuns(s, S, rep) ==
  Flatten([i \in 1..Len(s) |->
     IF s[i] \notin S THEN <<s[i]>>
     ELSE IF i > 1 /\ s[i - 1] \in S THEN <<>> ELSE <<rep>>])
DotMd == <<".", "m", "d">>
EndsWith(s, suffix) ==
  Len(s) >= Len(suffix) /\ SubSeq(s, Len(s) - Len(suffix) + 1, Len(s)) = suffix
sanitize_filename(title) ==
  LET removed == SelectSeq(title, LAMBDA c : c \notin InvalidChars)
      hyphened == SubRuns(removed, Whitespace, "-")
      single == SubRuns(hyphened, {"-"}, "-")
      lowered == [i \in 1..Len(single) |-> Lower(single[i])]
  IN IF EndsWith(lowered, DotMd) THEN lowered ELSE lowered \o DotMd

\* --------------------------------------------- main: --split-sections
\* The stem of --output, or of the sanitized document title.
base_name == <<"d", "o", "c">>
DigitOf(n) == <<"0", "1", "2", "3", "4", "5", "6", "7", "8", "9">>[n + 1]
\* f"{i:02d}" for i < 100
TwoDigits(i) == <<DigitOf(i \div 10), DigitOf(i % 10)>>
section_filename(section_title, i) ==
  IF section_title # <<>> THEN sanitize_filename(section_title)
  ELSE base_name \o <<"-">> \o TwoDigits(i) \o DotMd

\* The directory is the sequence of its files, in the order of creation.
Exists(dir, name) == \E k \in 1..Len(dir) : dir[k].name = name
\* One turn of the loop: the file is skipped when it exists and --force is
\* not given, and written (over the old content) otherwise.
WriteFile(dir, overwrite, name, content) ==
  IF Exists(dir, name)
    THEN IF overwrite
           THEN [k \in 1..Len(dir) |->
                   IF dir[k].name = name THEN [dir[k] EXCEPT !.content = content]
                   ELSE dir[k]]
           ELSE dir
    ELSE Append(dir, [name |-> name, content |-> content])
RECURSIVE WriteSections(_, _, _, _)
WriteSections(sections, i, dir, overwrite) ==
  IF i > Len(sections) THEN dir
  ELSE WriteSections(sections, i + 1,
         WriteFile(dir, overwrite, section_filename(sections[i].title, i), sections[i].body),
         overwrite)

\* The sections returned by the converter are written into an empty
\* directory, with or without --force.
ExportSections ==
  /\ call.fn = "convert_document_to_markdown" /\ call.returned
  /\ call.split_by_sections /\ ~call.split_by_tabs
  /\ ~exported
  /\ \E f \in BOOLEAN :
       /\ force' = f
       /\ directory' = WriteSections(result, 1, <<>>, f)
  /\ exported' = TRUE
  /\ UNCHANGED <<document_vars, element_vars, text_vars, upload_vars, file_vars>>

NextDoc == GetAllTabs \/ CollectContent \/ ConvertDocument \/ ExportSections
SpecDoc == InitDoc /\ [][NextDoc]_vars

\* ------------------------------------------------ saving the doc id
\* The pieces a markdown file is made of: text, markers as the program
\* writes them, markers with other spacing, an id that ends in dashes, and
\* comments the pattern does not match.
FilePieces ==
  {<<"#", " ", "T", "\n">>,
   Marker(OldId),
   <<"<", "!", "-", "-", "g", "o", "o", "g", "l", "e", "-", "d", "o", "c", "-", "i", "d", ":", "x", "1", "-", "-", ">">>,
   <<"<", "!", "-", "-", "\n", " ", "g", "o", "o", "g", "l", "e", "-", "d", "o", "c", "-", "i", "d", ":", "\t", "x", "\n", "-", "-", ">", "\n">>,
   <<"<", "!", "-", "-", " ", "g", "o", "o", "g", "l", "e", "-", "d", "o", "c", "-", "i", "d", ":", " ", "y", "-", "-", "-", " ", "-", "-", ">">>,
   <<"<", "!", "-", "-", " ", "g", "o", "o", "g", "l", "e", "-", "d", "o", "c", "-", "i", "d", ":", " ", "-", "-", ">">>,
   <<"<", "!", "-", "-", " ", "g", "o", "o", "g", "l", "e", "-", "d", "o", "c", "-", "i", "d", ":", " ", "a", " ", "b", " ", "-", "-", ">">>}
RECURSIVE PiecesUpTo(_)
PiecesUpTo(n) ==
  IF n = 0 THEN {<<>>}
  ELSE PiecesUpTo(n - 1)
       \cup {piece \o rest : piece \in FilePieces, rest \in PiecesUpTo(n - 1)}
InitialFiles == PiecesUpTo(MaxPieces)
DocIds == {<<"A">>, <<"B">>}

InitSave ==
  /\ file \in InitialFiles
  /\ saved = <<>>
  /\ IdleExport /\ IdleUpload

\* One call of save_doc_id_to_markdown on the file.
Save ==
  /\ Len(saved) < MaxSaves
  /\ \E doc_id \in DocIds :
       /\ file' = save_doc_id_to_markdown(file, doc_id)
       /\ saved' = Append(saved, doc_id)
  /\ UNCHANGED <<export_vars, upload_vars>>

NextSave == Save
SpecSave == InitSave /\ [][NextSave]_vars

\* ------------------------------------- preprocess_markdown_for_lists
Digits == {"0", "1", "2", "3", "4", "5", "6", "7", "8", "9"}
\* re.match(r'^[\-\*\+]\s', line) or re.match(r'^\d+\.\s', line)
IsListItem(line) ==
  \/ Len(line) >= 2 /\ line[1] \in {"-", "*", "+"} /\ line[2] \in Whitespace
  \/ \E n \in 1..(Len(line) - 2) :
       /\ \A k \in 1..n : line[k] \in Digits
       /\ line[n + 1] = "." /\ line[n + 2] \in Whitespace
\* Variant: a blank line is inserted after a blank line as well.
PreprocessStepAfterBlank(done, line) ==
  IF IsListItem(line) /\ done # <<>> /\ ~IsListItem(done[Len(done)])
    THEN done \o << <<>>, line >>
    ELSE Append(done, line)
\* One round of the loop: done is the list `result` so far.
PreprocessStep(done, line) ==
  IF IsListItem(line) /\ done # <<>> /\ Strip(done[Len(done)]) # <<>>
     /\ ~IsListItem(done[Len(done)])
    THEN done \o << <<>>, line >>
    ELSE Append(done, line)
RECURSIVE PreprocessFrom(_, _, _)
PreprocessFrom(lines, i, done) ==
  IF i > Len(lines) THEN done
  ELSE PreprocessFrom(lines, i + 1, PreprocessStep(done, lines[i]))
preprocess_markdown_for_lists(text) ==
  Join(<<"\n">>, PreprocessFrom(Split(text, "\n"), 1, <<>>))

\* The lines of the markdown texts.
ListLines ==
  {<<>>,
   <<" ">>,
   <<"a">>,
   <<"-", " ", "a">>,
   <<"*", "\t", "a">>,
   <<"1", ".", " ", "a">>,
   <<"1", "2", ".", " ", "b">>,
   <<"-", "a">>,
   <<"1", ".", "a">>,
   <<" ", "-", " ", "a">>}
RawTexts == {Join(<<"\n">>, lines) : lines \in SeqsUpTo(ListLines, MaxLines) \ {<<>>}}

InitLists ==
  /\ raw \in RawTexts
  /\ preprocessed = <<>>
  /\ passes = 0
  /\ IdleElement /\ IdleDocument /\ IdleDisk /\ IdleUpload /\ IdleFile

\* preprocess_markdown_for_lists applied to the text, then to its own output.
Preprocess ==
  /\ passes < MaxPasses
  /\ preprocessed' = preprocess_markdown_for_lists(IF passes = 0 THEN raw ELSE preprocessed)
  /\ passes' = passes + 1
  /\ UNCHANGED <<raw, element_vars, document_vars, disk_vars, upload_vars, file_vars>>

NextLists == Preprocess
SpecLists == InitLists /\ [][NextLists]_vars

\* ======================================================== the properties
Aborted == pc \in {"except", "exited"}
Ended == pc \in {"except", "exited", "crashed"}
HasNestedBullet == \E i \in 1..Len(body) : body[i].bullet.present /\ body[i].bullet.nestingLevel > 0

RECURSIVE StrictlyDescending(_)
StrictlyDescending(q) ==
  Len(q) < 2 \/ (q[1] > q[2] /\ StrictlyDescending(Tail(q)))

\* The unit at index j is the placeholder newline step 1 inserted for the
\* table met after text_pos paragraphs.
IsPlaceholderOf(doc, j, text_pos) ==
  /\ 1 <= j /\ j <= Len(doc)
  /\ doc[j].k = "ch" /\ doc[j].c = "\n"
  /\ doc[j].p = text_pos + 1 /\ doc[j].a = 1 /\ doc[j].b = 1

\* C1: tables are replayed in strictly descending source order, and when the
\* DeleteRange [p, p+1) of a table is about to be issued the character at
\* offset p of the destination is the placeholder newline that step 1
\* inserted for that table.
C1_PlaceholderAtOffset ==
  /\ StrictlyDescending(replayed)
  /\ pc = "table_struct" =>
       IsPlaceholderOf(dest, requests[1].s, table_info[ti].text_pos)

\* C2: no request is issued with an offset that a change of the document's
\* length, applied since the offset was computed or read, has moved.
C2_NoStaleOffset == ~staleUse

\* A state in which the table after a nested bullet is about to be replayed.
C1_Reached == pc = "table_struct" /\ Len(replayed) = 1 /\ HasNestedBullet

\* A state in which a bullet batch that followed a nested bullet was issued.
C2_Reached == last.stage = "bullets" /\ last.outcome = "ok" /\ Len(last.ops) > 1 /\ HasNestedBullet

\* ---------------------------------------------------------------- C3
Indices(doc, op) == {j \in 1..Len(doc) : op.s <= j /\ j < op.e}
IsTrailingNewline(u) ==
  u.c = "\n" /\ u.b = Len(paragraphs[u.p].text_runs[u.a].text)
\* The characters step 1 rendered for the paragraph, or for the run without
\* its trailing newline, that the request was computed for.
TargetOf(doc, op) ==
  IF op.op = "updateParagraphStyle"
    THEN {j \in 1..Len(doc) : doc[j].k = "ch" /\ doc[j].p = op.para}
    ELSE {j \in 1..Len(doc) : /\ doc[j].k = "ch" /\ doc[j].p = op.para /\ doc[j].a = op.run
                              /\ ~IsTrailingNewline(doc[j])}
RendersSource(u) == u.c = paragraphs[u.p].text_runs[u.a].text[u.b]
PlaceholderPositions == {table_info[t].text_pos + 1 : t \in 1..Len(table_info)}

\* C3: every UpdateParagraphStyle and UpdateTextStyle of step 2 covers, in the
\* destination as the bulk insertion left it, exactly the characters of the
\* paragraph, or of the run without its trailing newline, it was computed
\* for; no request is computed for a table placeholder.
C3_Step2RangesCoverTheirText ==
  last.stage = "format" =>
    \A n \in 1..Len(last.ops) :
      LET op == last.ops[n] IN
      /\ op.op \in {"updateParagraphStyle", "updateTextStyle"}
      /\ 1 <= op.s /\ op.s < op.e /\ op.e <= Len(dest) + 1
      /\ Indices(dest, op) = TargetOf(dest, op)
      /\ \A j \in Indices(dest, op) : RendersSource(dest[j])
      /\ op.para \notin PlaceholderPositions

C3_Reached ==
  /\ last.stage = "format" /\ table_info # <<>>
  /\ \E n \in 1..Len(last.ops) : last.ops[n].op = "updateParagraphStyle" /\ last.ops[n].s > 1
  /\ \E n \in 1..Len(last.ops) : last.ops[n].op = "updateTextStyle" /\ last.ops[n].s > 1

\* ---------------------------------------------------------------- C4
StageRank(stage) ==
  CASE stage = "text" -> 1
    [] stage = "format" -> 2
    [] stage = "bullets" -> 3
    [] OTHER -> 4
ReplicatorStages == {"text", "format", "bullets", "table_struct", "table_fill",
                     "table_style", "table_font"}
ReplicatorTrace == SelectSeq(trace, LAMBDA st : st \in ReplicatorStages)

\* C4: the bulk text insertion is issued before any paragraph/run style
\* batch, every such batch before any bullet batch, and every bullet batch
\* before any table request.
C4_StagesInOrder ==
  /\ \A i, j \in 1..Len(ReplicatorTrace) :
       i < j => StageRank(ReplicatorTrace[i]) <= StageRank(ReplicatorTrace[j])
  /\ ReplicatorTrace # <<>> => ReplicatorTrace[1] = "text"

C4_Reached ==
  /\ pc = "done"
  /\ \A st \in {"text", "format", "bullets", "table_struct", "table_fill"} :
       \E i \in 1..Len(trace) : trace[i] = st

\* ---------------------------------------------------------------- C5
\* The text the claim describes: per element in source order, the tabs of a
\* nested bullet and the run texts of a paragraph, one newline for a table.
ExpectedText(b) ==
  Flatten([i \in 1..Len(b) |->
     IF b[i].kind = "table" THEN <<"\n">>
     ELSE (IF b[i].bullet.present THEN Tabs(b[i].bullet.nestingLevel) ELSE <<>>)
          \o FullText(b[i].runs)])

IsInsert(op) == op.op \in {"insertText", "insertTextEnd"}

\* C5: step 1 issues at most one InsertText, at the end of the segment, whose
\* text is the concatenation of the paragraphs' run texts with the tabs of
\* nested bullets and one newline per table; every other insertion of text
\* goes into a table cell.
C5_OneBulkInsertion ==
  /\ Cardinality({i \in 1..Len(trace) : trace[i] = "text"}) <= 1
  /\ last.stage = "text" =>
       /\ Len(last.ops) = 1 /\ last.ops[1].op = "insertTextEnd"
       /\ Chars(last.ops[1].text) = ExpectedText(body)
       /\ last.outcome = "ok" => Chars(dest) = ExpectedText(body) \o <<"\n">>
  /\ (\E n \in 1..Len(last.ops) : IsInsert(last.ops[n])) => last.stage \in {"text", "table_fill"}
  /\ pc = "table_fill" =>
       \A n \in 1..Len(requests) :
         /\ requests[n].op = "insertText"
         /\ requests[n].s <= Len(dest) /\ dest[requests[n].s].k = "cc"

C5_Reached ==
  /\ last.stage = "text" /\ last.outcome = "ok"
  /\ HasNestedBullet /\ table_info # <<>>

\* ---------------------------------------------------------------- C6
\* The length of a text without its trailing newline.
StyledLen(text) == Len(text) - (IF EndsWithNewline(text) THEN 1 ELSE 0)
\* The runs step 2 is to style: a style attribute is set and a character
\* other than a trailing newline is there.
StyledRuns ==
  {pr \in (1..Len(paragraphs)) \X (1..4) :
     /\ pr[2] <= Len(paragraphs[pr[1]].text_runs)
     /\ paragraphs[pr[1]].text_runs[pr[2]].style \cap BodyStyleFields # {}
     /\ StyledLen(paragraphs[pr[1]].text_runs[pr[2]].text) >= 1}
RunStart(pi, ri) ==
  PlaceholderStart(paragraphs, pi - 1)
  + SumLen([k \in 1..(ri - 1) |-> paragraphs[pi].text_runs[k].text])
format_requests == IF pc = "format" THEN requests ELSE <<>>

\* C6: once step 1 has inserted the text, step 2 holds exactly one
\* UpdateTextStyle for every run that has a style attribute and a character
\* other than a trailing newline, over that run's span, whatever the run's
\* length.
C6_EveryStyledRunStyled ==
  (last.stage = "text" /\ last.outcome = "ok") =>
    \A pr \in StyledRuns :
      Cardinality({n \in 1..Len(format_requests) :
                     /\ format_requests[n].op = "updateTextStyle"
                     /\ format_requests[n].para = pr[1] /\ format_requests[n].run = pr[2]
                     /\ format_requests[n].s = RunStart(pr[1], pr[2])
                     /\ format_requests[n].e = RunStart(pr[1], pr[2])
                          + StyledLen(paragraphs[pr[1]].text_runs[pr[2]].text)}) = 1

\* ---------------------------------------------------------------- C7
BatchStages == {"format", "bullets", "table_style", "table_font", "styles"}
Cooldown == pc \in {"table_style_retry", "styles_retry"}

\* C7: a batch of any stage that is answered with a rate limit is sent once
\* more after a cooldown; a failure of the retry propagates; no batch is
\* issued more than twice.
C7_RateLimitRetriedOnce ==
  /\ (last.stage \in BatchStages /\ last.outcome = "rate" /\ last.attempt = 1) => Cooldown
  /\ (last.attempt = 2 /\ last.outcome # "ok") => Ended
  /\ last.attempt <= 2

\* ---------------------------------------------------------------- C8
\* C8 as stated: a batch that fails with an error other than a rate limit is
\* not retried and ends the run of its operation list.
C8_ErrorPropagates ==
  (last.stage \in BatchStages /\ last.outcome = "err") => (Ended /\ ~Cooldown)

\* C8 amended: a batch of apply_document_styles that fails with an error other
\* than a rate limit propagates at once, without a retry and without a later
\* batch; in the replicator such a failure of a paragraph/run style, bullet or
\* table-cell style batch is not retried either, but it is only a warning and
\* never ends the run.
C8_ErrorPropagatesInStyleApplicator ==
  /\ (last.stage = "styles" /\ last.outcome = "err") =>
       (pc = "crashed" /\ raised \in {"styles", "styles_retry"})
  /\ (last.outcome = "err" /\ last.attempt = 1) => ~Cooldown
  /\ Ended => raised \notin {"format", "bullets", "table_style"}

\* The first of several batches of apply_document_styles failed.
C8_Reached ==
  /\ last.stage = "styles" /\ last.outcome = "err" /\ last.attempt = 1
  /\ bi = 0 /\ Len(requests) > StyleBatchSize /\ pc = "crashed"

\* ---------------------------------------------------------------- C9
\* C9: the failure of a style batch of the replicator (paragraph/run styles,
\* bullets, table-cell styles, table font size) never ends the run.
C9_StyleFailureNotFatal ==
  Aborted => raised \notin {"format", "bullets", "table_style", "table_style_retry", "table_font"}

\* ---------------------------------------------------------------- C10
FatalFailed == last.stage \in {"text", "table_struct"} /\ last.outcome # "ok"

\* C10 as stated: when the bulk insertion or a table's structure batch fails
\* the run is aborted, nothing more is issued and the source document is
\* never deleted.
C10_SourceNeverDeleted ==
  FatalFailed => (Aborted /\ temp = "exists")

\* C10 amended: when the bulk insertion or a table's structure batch fails the
\* run is aborted and nothing more is issued against the destination;
\* upload_to_drive then attempts once to delete the source document and
\* exits, so the source survives only when that delete fails.
C10_AbortThenCleanup ==
  FatalFailed =>
    /\ Aborted /\ raised \in {"step1", "table_struct"}
    /\ pc = "except" => (deletes = 0 /\ temp = "exists")
    /\ pc = "exited" => deletes = 1

C10_Reached == FatalFailed /\ pc = "exited" /\ temp = "deleted" /\ last.stage = "table_struct"

\* ---------------------------------------------------------------- C11
\* The statements of copy_doc_content_to_existing from step 1 on.
ReplicationPoints == {"step1", "table_struct", "table_fetch1", "table_fill", "table_fetch2",
                      "table_style_retry", "table_fetch3", "table_font"}
\* A character of the text of the source body: not the placeholder of a
\* table, not a tab prepended for a nested bullet.
IsBodyText(u) ==
  /\ u.k = "ch" /\ u.p > 0 /\ u.p \notin PlaceholderPositions
  /\ ~(u.a = 1 /\ u.c = "\t" /\ paragraphs[u.p].bullet.present)
\* The characters of the body text among `us`, each with its place in the source.
BodyTextOf(us) ==
  LET text == SelectSeq(us, IsBodyText)
  IN [i \in 1..Len(text) |-> <<text[i].c, text[i].p, text[i].a, text[i].b>>]
SourceText == BodyTextOf(AllText(paragraphs))
DestinationText == BodyTextOf(dest)

\* C11: when the in-place update ends with a failure raised in the
\* replication, from step 1 on, the destination holds the whole text of the
\* source body, in order.
C11_TextPresentOnFailure ==
  (pc = "exited" /\ raised \in ReplicationPoints) => DestinationText = SourceText

\* ---------------------------------------------------------------- C12
\* upload_to_drive has returned: main goes on with apply_document_styles.
Returned ==
  \/ pc \in {"styles_get", "styles", "styles_retry", "save_id", "done"}
  \/ pc = "crashed" /\ raised \in {"styles_get", "styles", "styles_retry"}

\* C12: when upload_to_drive, called with an existing document id, has
\* returned or has exited after a failure, a delete of the uploaded temporary
\* document has been attempted; on the normal return it succeeded.
C12_DeleteAttempted ==
  /\ (existing /\ (pc = "exited" \/ Returned)) => deletes >= 1
  /\ (existing /\ Returned) => temp = "deleted"

\* The final lookup failed after the temporary document had been deleted.
C12_Reached == existing /\ pc = "exited" /\ raised = "final_get" /\ deletes = 2

\* ---------------------------------------------------------------- C13
\* The number of cells of each row: of the table that starts at index t of
\* the document, and of a source table.
DestShape(doc, t) ==
  [r \in 1..Cardinality({j \in t..TableEndOf(doc, t) : doc[j].k = "row"}) |->
     Cardinality({j \in CellsOf(doc, t) : RowOf(doc, j) = r})]
SourceShape(table) == [r \in 1..Len(table.tableRows) |-> Len(table.tableRows[r])]
dest_table == FindTable(dest, placeholder_start)

\* C13: the cell texts of a table are inserted only when the table read back
\* from the destination has the rows and the cells per row of the source
\* table.
C13_MismatchAbortsTable ==
  pc = "table_fill" => DestShape(dest, dest_table) = SourceShape(table_info[ti].table)

\* ---------------------------------------------------------------- C14
\* The units of the content of the cell at index j of the document.
CellContent(doc, j) ==
  SubSeq(doc, j + 1,
         j + Cardinality({i \in (j + 1)..Len(doc) : \A m \in (j + 1)..i : doc[m].k = "cc"}))
\* The text of the source cell (row, col) without its trailing newlines;
\* nothing for a cell the source row does not hold.
SourceCellText(table, row, col) ==
  IF row <= Len(table.tableRows) /\ col <= Len(table.tableRows[row])
    THEN RStripNewlines(FullText(table.tableRows[row][col]))
    ELSE <<>>

\* C14: the insertText requests of a cell-fill batch are in strictly
\* descending order of index, and once the batch is applied every cell of the
\* destination table holds the text of the source cell of its row and
\* column, before the newline that closes the cell, and nothing of another
\* cell.
C14_CellFillDescending ==
  /\ pc = "table_fill" =>
       \A n \in 1..(Len(requests) - 1) : requests[n].s > requests[n + 1].s
  /\ (pc = "table_fetch2" /\ last.stage = "table_fill") =>
       \A j \in CellsOf(dest, dest_table) :
         LET content == CellContent(dest, j) IN
         /\ \A i \in 1..(Len(content) - 1) :
              content[i].a = RowOf(dest, j) /\ content[i].b = ColOf(dest, j)
         /\ Chars(content) =
              SourceCellText(table_info[ti].table, RowOf(dest, j), ColOf(dest, j)) \o <<"\n">>

\* A batch that filled several cells of a table was applied.
C14_Reached ==
  pc = "table_fetch2" /\ last.stage = "table_fill" /\ Len(last.ops) > 2

\* ---------------------------------------------------------------- C15
LoopStages == {"styles", "format", "bullets", "table_style"}
Threshold(stage) ==
  CASE stage = "styles" -> StyleBatchSize
    [] stage = "format" -> FormatBatchSize
    [] stage = "bullets" -> BulletBatchSize
    [] OTHER -> CellStyleBatchSize
Issued == trace' # trace
\* The step issues a batch of a list that is sent in batches: the batch is
\* the next slice of the list, of at most the threshold of its stage; the
\* batch after it follows in the next step of the loop, and the loop is left
\* only when the list is exhausted or an exception propagates.
SlicedInOrder ==
  (Issued /\ last'.stage \in LoopStages) =>
    LET n == Threshold(last'.stage) IN
    /\ bi % n = 0 /\ bi < Len(requests)
    /\ last'.ops = SubSeq(requests, bi + 1, Min(bi + n, Len(requests)))
    /\ Len(last'.ops) <= n
    /\ (bi > 0 \/ last'.attempt = 2) => last.stage = last'.stage
    /\ IF pc' \in {"styles_retry", "table_style_retry"} THEN bi' = bi /\ requests' = requests
       ELSE IF pc' = last'.stage THEN bi' = bi + n /\ bi' < Len(requests) /\ requests' = requests
       ELSE IF pc' \in {"except", "crashed"} THEN TRUE
       ELSE bi + n >= Len(requests)
\* A sleep lies between the batch the step issues and the batch issued
\* before it from the same list.
DelayedSincePrevious ==
  (Issued /\ last'.stage \in LoopStages /\ (bi > 0 \/ last'.attempt = 2)) => last.rest > 0

\* C15: every list sent in batches is split into consecutive slices in list
\* order, none above the threshold of its stage (30, 50, 50, 20), issued one
\* after another, with a delay between any two consecutive issues.
C15_BatchesInOrderWithDelay == [][SlicedInOrder /\ DelayedSincePrevious]_vars

\* ---------------------------------------------------------------- C16
RenderedParagraph == rendered /\ element.kind = "paragraph"
\* The run's text wrapped innermost in its emphasis, then in <u>..</u>, then,
\* when `linked`, in [..](url).
Composed(run, linked) ==
  LET st == run.textStyle
      stars == IF st.bold /\ st.italic THEN <<"*", "*", "*">>
               ELSE IF st.bold THEN <<"*", "*">>
               ELSE IF st.italic THEN <<"*">> ELSE <<>>
      inner == stars \o run.content \o stars
      middle == IF st.underline THEN <<"<", "u", ">">> \o inner \o <<"<", "/", "u", ">">>
                ELSE inner
  IN IF linked THEN <<"[">> \o middle \o <<"]", "(">> \o st.link.url \o <<")">> ELSE middle
HasUrl(run) == run.textStyle.link.present /\ run.textStyle.link.url # <<>>
HasLink(run) == run.textStyle.link.present
TextRuns(para) == SelectSeq(para.elements, LAMBDA el : el.textRun /\ el.content # <<>>)
\* The paragraph ends with the composed runs, in order, right-stripped.
ComposedWhen(para, any_link) ==
  LET runs == TextRuns(para) IN
  EndsWith(markdown,
           RStrip(Flatten([i \in 1..Len(runs) |->
                             Composed(runs[i], IF any_link THEN HasLink(runs[i])
                                               ELSE HasUrl(runs[i]))]))
           \o <<"\n">>)

\* C16 as stated: every run with text is wrapped innermost with ***, ** or *,
\* then with <u>..</u> if underlined, then with [..](url) if a link is
\* present, whatever the other runs of the paragraph are.
C16_LinkPresentOutermost == RenderedParagraph => ComposedWhen(element, TRUE)
\* C16, amended: the link wrapper is applied, outermost, when the link
\* carries a url; a link without one (to a heading or a bookmark) adds nothing.
C16_UrlLinkOutermost == RenderedParagraph => ComposedWhen(element, FALSE)
C16_Reached ==
  /\ RenderedParagraph
  /\ element.elements = <<TextRun(<<"t">>, TextStyle(TRUE, FALSE, TRUE, UrlLink))>>
  /\ element.namedStyleType = "NORMAL_TEXT" /\ ~element.bullet.present
  /\ markdown = <<"[", "<", "u", ">", "*", "*", "t", "*", "*", "<", "/", "u", ">", "]",
                  "(", "u", ")", "\n">>

\* ---------------------------------------------------------------- C17
BulletedParagraph ==
  RenderedParagraph /\ element.bullet.present /\ ~StartsWithHeading(element.namedStyleType)
\* C17: a bulleted paragraph that is no heading renders as "- " and its text
\* at nestingLevel 0 and as "  - " and its text, one two-space indent, at
\* every nestingLevel from 1 up.
C17_SingleIndentStep ==
  BulletedParagraph =>
    markdown = (IF element.bullet.nestingLevel = 0 THEN <<"-", " ">>
                ELSE <<" ", " ", "-", " ">>)
               \o paragraph_text(element) \o <<"\n">>

\* ---------------------------------------------------------------- C18
HeadingName(k) ==
  CASE k = 1 -> "HEADING_1" [] k = 2 -> "HEADING_2" [] k = 3 -> "HEADING_3"
    [] k = 4 -> "HEADING_4" [] k = 5 -> "HEADING_5" [] OTHER -> "HEADING_6"
\* C18: a paragraph of named style HEADING_k, k in 1..6, renders as k '#', a
\* space, its text and a newline, with or without a bullet.
C18_HeadingOverBullet ==
  \A k \in 1..6 :
    (RenderedParagraph /\ element.namedStyleType = HeadingName(k)) =>
      markdown = [i \in 1..k |-> "#"] \o <<" ">> \o paragraph_text(element) \o <<"\n">>
C18_Reached ==
  /\ RenderedParagraph
  /\ element.namedStyleType = "HEADING_3"
  /\ element.bullet.present /\ element.bullet.nestingLevel = 1
  /\ markdown = <<"#", "#", "#", " ", "t", "\n">>

\* ---------------------------------------------------------------- C19
\* The table has a row and a cell, and its conversion has returned.
RenderedTable ==
  /\ rendered /\ element.kind = "table"
  /\ \E r \in 1..Len(element.tableRows) : element.tableRows[r] # <<>>
Longest(rows) ==
  CHOOSE n \in 0..MaxCols + 1 :
    /\ \E r \in 1..Len(rows) : Len(rows[r]) = n
    /\ \A r \in 1..Len(rows) : Len(rows[r]) <= n
\* The lines of the table: the markdown without its closing blank line.
TableLines ==
  IF Len(markdown) < 2 THEN <<>> ELSE Split(SubSeq(markdown, 1, Len(markdown) - 2), "\n")
LineOfRow(r) == IF r = 1 THEN 1 ELSE r + 1
\* The text the table holds in cell c of row r, escaped; empty past the row.
EmittedCell(r, c) ==
  IF c <= Len(element.tableRows[r]) THEN escape_cell(cell_text(element.tableRows[r][c]))
  ELSE <<>>

\* C19: a table with a row and a cell is emitted as one line per row and one
\* separator line; every line is made of numCols = longest row cells: the
\* row's own cells, all of them, then empty ones; the separator of numCols
\* "---".
C19_PaddedToLongestRow ==
  RenderedTable =>
    LET rows == element.tableRows
        numCols == Longest(rows)
    IN /\ EndsWith(markdown, <<"\n", "\n">>)
       /\ Len(TableLines) = Len(rows) + 1
       /\ TableLines[2] = RowLine([c \in 1..numCols |-> <<"-", "-", "-">>])
       /\ \A r \in 1..Len(rows) :
            /\ Len(rows[r]) <= numCols
            /\ TableLines[LineOfRow(r)] = RowLine([c \in 1..numCols |-> EmittedCell(r, c)])
C19_Reached ==
  /\ RenderedTable
  /\ Len(element.tableRows) = 2
  /\ Len(element.tableRows[1]) = 3 /\ Len(element.tableRows[2]) = 2
  /\ Len(TableLines) = 3
  /\ EndsWith(TableLines[3], <<" ", "|", " ", " ", "|">>)

\* ---------------------------------------------------------------- C20
\* The pipes of the line that no backslash stands directly in front of.
UnescapedPipes(line) ==
  {i \in 1..Len(line) : line[i] = "|" /\ (i = 1 \/ line[i - 1] # "\\")}
\* The pieces of the line between its unescaped pipes, without the blank on
\* either side.
EmittedCells(line) ==
  LET cuts == UnescapedPipes(line)
      cut(k) == CHOOSE i \in cuts : Cardinality({j \in cuts : j < i}) = k
  IN [k \in 1..(Cardinality(cuts) - 1) |-> SubSeq(line, cut(k - 1) + 2, cut(k) - 2)]
\* The text with a backslash in front of every pipe and a blank for every
\* newline.
PipesEscaped(text) ==
  Flatten([i \in 1..Len(text) |->
             IF text[i] = "|" THEN <<"\\", "|">>
             ELSE IF text[i] = "\n" THEN <<" ">> ELSE <<text[i]>>])

\* C20: every emitted row is one line that holds exactly numCols + 1 pipes
\* without a backslash in front, and between them the text of the row's
\* cells with every pipe turned into \| and every newline into a blank.
C20_PipesEscapedOneLine ==
  RenderedTable =>
    LET rows == element.tableRows
    IN /\ Len(TableLines) = Len(rows) + 1
       /\ \A r \in 1..Len(rows) :
            LET line == TableLines[LineOfRow(r)] IN
            /\ Cardinality(UnescapedPipes(line)) = Longest(rows) + 1
            /\ \A c \in 1..Len(rows[r]) :
                 EmittedCells(line)[c] = PipesEscaped(cell_text(rows[r][c]))
C20_Reached ==
  /\ RenderedTable
  /\ element.tableRows = << <<CellOf(<< <<"a", "|", "b", "\n">> >>),
                              CellOf(<< <<"a", "\n">>, <<"b", "\n">> >>)>> >>
  /\ markdown = <<"|", " ", "a", "\\", "|", "b", " ", "|", " ", "a", " ", " ", "b", " ", "|", "\n",
                  "|", " ", "-", "-", "-", " ", "|", " ", "-", "-", "-", " ", "|", "\n", "\n">>

\* ---------------------------------------------------------------- C21
\* convert_document_to_markdown has returned from a call in the given mode.
Converted(split_by_sections, split_by_tabs) ==
  call = Call("convert_document_to_markdown", split_by_sections, split_by_tabs, TRUE)
NotesMarkdown ==
  <<"#", " ", "N", "o", "t", "e", "s", "\n">>
  \o <<"*", "*", "*", "h", "i", "*", "*", "*", "\n">>
  \o <<"|", " ", "|", " ", "|", "\n">>
  \o <<"|", " ", "-", "-", "-", " ", "|", " ", "-", "-", "-", " ", "|", "\n">>
  \o <<"|", " ", "|", " ", "|", "\n", "\n">>

\* C21: with no split mode, the document of one tab that holds the H1
\* paragraph "Notes", a paragraph of one bold and italic run "hi" and a table
\* of two rows of two empty cells is converted to one section whose body is
\* exactly "# Notes\n***hi***\n| | |\n| --- | --- |\n| | |\n\n".
C21_NotesDocumentRendering ==
  (document = NotesDocument /\ Converted(FALSE, FALSE)) =>
    /\ Len(result) = 1
    /\ result[1].body = NotesMarkdown

\* ---------------------------------------------------------------- C22
\* The document has one tab and nothing in its body; stream is the content of
\* the tab.
SingleTab == Len(document.tabs) = 1 /\ document.tabs[1].childTabs = <<>> /\ document.body = <<>>
stream == document.tabs[1].content
IsH1(el) == el.kind = "paragraph" /\ el.namedStyleType = "HEADING_1"
IsBreak(el) == el.kind = "sectionBreak"
\* What an element adds to the body of a section.
Fragment(el) ==
  CASE el.kind = "paragraph" -> convert_paragraph_to_markdown(el)
    [] el.kind = "table" -> convert_table_to_markdown(el)
    [] OTHER -> <<>>
\* The stretch of the stream that starts at i (0: at the start of the stream)
\* ends before the next H1 paragraph or section break.
StretchEnd(s, i) ==
  LET next == {j \in (i + 1)..Len(s) : IsH1(s[j]) \/ IsBreak(s[j])}
  IN IF next = {} THEN Len(s) ELSE (CHOOSE j \in next : \A m \in next : j <= m) - 1
StretchBody(s, i) ==
  Flatten([m \in 1..(StretchEnd(s, i) - i + 1) |->
             IF i + m - 1 = 0 THEN <<>> ELSE Fragment(s[i + m - 1])])
\* The stretches that hold a paragraph or a table: each gives a section.
Stretches(s) ==
  {i \in 0..Len(s) :
     /\ i = 0 \/ IsH1(s[i]) \/ IsBreak(s[i])
     /\ \E m \in i..StretchEnd(s, i) : m > 0 /\ s[m].kind \in {"paragraph", "table"}}
\* The section of the result that the stretch starting at i gives.
SectionOf(s, i) == result[Cardinality({j \in Stretches(s) : j <= i})]
\* The plain text of an H1 paragraph, without the blanks around it.
HeadingText(para) ==
  Strip(Flatten([i \in 1..Len(para.elements) |-> extract_text_runs(para.elements[i])]))
\* Every H1 paragraph of the stream starts a section of the result, whose
\* title is titleOf(the paragraph) and whose body is the H1 paragraph and
\* what follows it up to the next H1 paragraph or section break.
HeadingsStartSections(titleOf(_)) ==
  (SingleTab /\ Converted(TRUE, FALSE)) =>
    /\ Len(result) = IF Stretches(stream) = {} THEN 1 ELSE Cardinality(Stretches(stream))
    /\ \A h \in 1..Len(stream) :
         IsH1(stream[h]) =>
           /\ h \in Stretches(stream)
           /\ SectionOf(stream, h).title = titleOf(stream[h])
           /\ SectionOf(stream, h).body = StretchBody(stream, h)
IntroSections ==
  (document = IntroDocument /\ Converted(TRUE, FALSE)) =>
    [i \in 1..Len(result) |-> result[i].title] =
      << <<"I", "n", "t", "r", "o", " ", "t", "e", "x", "t">>, <<"A">>, <<"B">> >>

\* C22 as stated: in by-heading mode with a single tab, every HEADING_1
\* paragraph starts a new section titled with the text of the heading, of
\* which it is the first fragment, and no section holds a HEADING_1 paragraph
\* but as its first fragment; the stream H1 "Intro text", H1 "A", "x",
\* H1 "B", "y" gives the three sections "Intro text", "A", "B".
C22_HeadingTextIsTitle == HeadingsStartSections(HeadingText) /\ IntroSections

\* C22 amended: the same, the title of the section being the text of the
\* heading without its asterisk markers and the blanks around it, or
\* "Untitled Section" when nothing is left of it.
C22_HeadingStartsSection == HeadingsStartSections(HeadingTitle) /\ IntroSections

\* A heading between asterisks started the second section of three.
C22_Reached ==
  /\ SingleTab /\ Converted(TRUE, FALSE) /\ Len(stream) = 4 /\ Len(result) = 3
  /\ IsH1(stream[3]) /\ HeadingText(stream[3]) = <<"*", "B", "*">>
  /\ result[2].title = <<"B">>

\* ---------------------------------------------------------------- C23
\* C23: in by-heading mode with a single tab, the paragraphs and tables that
\* come before the first HEADING_1 paragraph and before any section break
\* are emitted in a section titled "Introduction", whether a heading follows
\* them or the stream ends without one.
C23_LeadingContentIsIntroduction ==
  (SingleTab /\ Converted(TRUE, FALSE) /\ 0 \in Stretches(stream)) =>
    /\ result[1].title = Introduction
    /\ result[1].body = StretchBody(stream, 0)

\* ---------------------------------------------------------------- C24
\* The entries of all_content, and the fragments of the entry at index t.
entries == all_content(document)
FragmentsOf(content) ==
  Flatten([m \in 1..Len(content) |->
             IF content[m].kind \in {"paragraph", "table"} THEN <<Fragment(content[m])>>
             ELSE <<>>])
\* The content of the entry before its first H1 paragraph and section break.
LeadingBody(content) == StretchBody(content, 0)
\* The body is made of fragments of the content only: it is the
\* concatenation of a run of consecutive fragments of it.
WithinOneTab(text, content) ==
  LET frags == FragmentsOf(content)
  IN \E a \in 1..(Len(frags) + 1) : \E b \in (a - 1)..Len(frags) :
       text = Flatten(SubSeq(frags, a, b))

\* C24: in by-heading mode with two or more tabs that have content, the
\* content of a tab before the first HEADING_1 paragraph of the tab is in a
\* section titled with the title of that tab, and no section body holds
\* fragments of two tabs.
C24_TabBoundaryFlush ==
  (Converted(TRUE, FALSE) /\ Len(entries) >= 2) =>
    /\ \A t \in 1..Len(entries) :
         0 \in Stretches(entries[t].content) =>
           \E n \in 1..Len(result) :
             /\ result[n].title = entries[t].title
             /\ result[n].body = LeadingBody(entries[t].content)
    /\ \A n \in 1..Len(result) :
         \E t \in 1..Len(entries) : WithinOneTab(result[n].body, entries[t].content)

\* ---------------------------------------------------------------- C25
\* The entries of all_content as one stream, as the second loop reads them.
whole == Flatten([t \in 1..Len(entries) |-> entries[t].content])
\* The section in progress at element i holds a fragment: an element between
\* the last H1 paragraph or section break before i and i is a paragraph or a
\* table.
InProgress(s, i) ==
  \E m \in 1..(i - 1) :
    /\ s[m].kind \in {"paragraph", "table"}
    /\ \A j \in (m + 1)..(i - 1) : ~IsH1(s[j]) /\ ~IsBreak(s[j])
\* The start of the stretch that ends before element i: the last H1 paragraph
\* or section break before i, or 0.
StretchStart(s, i) ==
  LET starts == {0} \cup {j \in 1..(i - 1) : IsH1(s[j]) \/ IsBreak(s[j])}
  IN CHOOSE j \in starts : \A m \in starts : m <= j
\* The sections of the result in front of the one that the stretch of i gives.
SectionsBefore(s, i) == Cardinality({j \in Stretches(s) : j < i})

\* C25: in by-heading mode a section break flushes the section in progress
\* when it holds a fragment, and starts a new section: the paragraphs and
\* tables between a section break and the next HEADING_1 paragraph, section
\* break or end of the stream are one section titled "Untitled Section", and
\* the section break adds no text to a body.
C25_SectionBreakFlushes ==
  Converted(TRUE, FALSE) =>
    /\ Len(result) = IF Stretches(whole) = {} THEN 1 ELSE Cardinality(Stretches(whole))
    /\ \A i \in 1..Len(whole) :
         IsBreak(whole[i]) =>
           /\ InProgress(whole, i) =>
                LET p == StretchStart(whole, i)
                    flushed == result[SectionsBefore(whole, i)]
                IN /\ p \in Stretches(whole)
                   /\ flushed.body = StretchBody(whole, p)
                   /\ (p = 0 /\ Len(entries) = 1
                       /\ \A m \in 1..(i - 1) : whole[m].kind # "paragraph") =>
                        flushed.title = UntitledSection
           /\ i \in Stretches(whole) =>
                /\ SectionOf(whole, i).title = UntitledSection
                /\ SectionOf(whole, i).body = StretchBody(whole, i)
    /\ \A n \in 1..Len(result) :
         \A k \in 1..(Len(result[n].body) - Len(HorizontalRule) + 1) :
           SubSeq(result[n].body, k, k + Len(HorizontalRule) - 1) # HorizontalRule

\* A section break between two paragraphs gave two sections, the second one
\* untitled.
C25_Reached ==
  /\ SingleTab /\ Converted(TRUE, FALSE)
  /\ stream = <<P(<<"x", "\n">>), SectionBreak, P(<<"x", "\n">>)>>
  /\ result = <<Section(Introduction, <<"x", "\n">>), Section(UntitledSection, <<"x", "\n">>)>>

\* ---------------------------------------------------------------- C26
\* The bodies of the sections of the result, one after the other.
JoinedBodies == Flatten([n \in 1..Len(result) |-> result[n].body])

\* C26: in by-heading mode the bodies of the returned sections, concatenated
\* in the order of the result, are the renderings of the paragraphs and
\* tables of the stream concatenated in the order of the stream: every
\* fragment is in one section, unchanged, and the order is kept.
C26_BodiesAreTheFragments ==
  Converted(TRUE, FALSE) => JoinedBodies = Flatten(FragmentsOf(whole))

\* Three sections were returned for a stream that holds a table.
C26_Reached ==
  /\ Converted(TRUE, FALSE) /\ Len(result) = 3
  /\ \E m \in 1..Len(whole) : whole[m].kind = "table"
  /\ \A n \in 1..Len(result) : result[n].body # <<>>

\* ---------------------------------------------------------------- C27
\* convert_document_to_markdown has returned from a call with split_by_tabs
\* (which takes precedence over split_by_sections).
ConvertedByTabs ==
  call.fn = "convert_document_to_markdown" /\ call.split_by_tabs /\ call.returned
\* The rendered body of an entry of all_content in by-tab mode: its
\* paragraphs and tables, and a rule for every section break.
TabBody(content) ==
  Flatten([m \in 1..Len(content) |->
             IF IsBreak(content[m]) THEN HorizontalRule ELSE Fragment(content[m])])
Blank(text) == \A k \in 1..Len(text) : text[k] \in Whitespace
\* The entries whose body is not blank, as indices in flattening order.
Kept == {t \in 1..Len(entries) : ~Blank(TabBody(entries[t].content))}
\* One section per entry with a body that is not blank, in flattening order.
OnePerKeptEntry ==
  /\ Len(result) = Cardinality(Kept)
  /\ \A t \in Kept :
       LET sec == result[Cardinality({u \in Kept : u <= t})]
       IN sec.title = entries[t].title /\ sec.body = TabBody(entries[t].content)

\* C27 as stated: in by-tab mode the result has one section for every
\* flattened tab whose rendered body is not empty or blank, in flattening
\* order, titled with the title of the tab and holding the concatenation of
\* the rendered elements of the tab; a tab with a blank body gives no
\* section.
C27_OneSectionPerTab == ConvertedByTabs => OnePerKeptEntry

\* C27 amended: the same when some entry has a body that is not blank; when
\* none has, the result is the single section with the empty title and the
\* empty body.
C27_OneSectionPerTabOrPlaceholder ==
  ConvertedByTabs =>
    IF Kept = {} THEN result = <<Section(<<>>, <<>>)>> ELSE OnePerKeptEntry

\* Of two tabs the one with a blank body was dropped; the other holds a rule
\* for its section break.
C27_Reached ==
  /\ ConvertedByTabs /\ Len(entries) = 2 /\ Kept = {2} /\ Len(result) = 1
  /\ \E m \in 1..Len(entries[2].content) : IsBreak(entries[2].content[m])

\* ---------------------------------------------------------------- C28
\* The tabs of a tree in depth-first pre-order: a tab, then the tabs below
\* its first child, then those below its next child.
RECURSIVE Preorder(_)
Preorder(tabs) ==
  Flatten([i \in 1..Len(tabs) |-> <<tabs[i]>> \o Preorder(tabs[i].childTabs)])
EntryOf(tab) ==
  [title |-> IF tab.hasTitle THEN tab.title ELSE UntitledTab, content |-> tab.content]
\* The entries of the tabs that own a document body, in pre-order.
OwnerEntries(tabs) ==
  LET owners == SelectSeq(Preorder(tabs), LAMBDA t : t.hasDocumentTab)
  IN [n \in 1..Len(owners) |-> EntryOf(owners[n])]
ReturnedFrom(fn) == call = Call(fn, FALSE, FALSE, TRUE)

C29_MainDocumentOnlyWithoutTabs ==
  ReturnedFrom("all_content") =>
    IF document.tabs = <<>>
      THEN result = <<[title |-> MainDocument, content |-> document.body]>>
      ELSE LET owned == OwnerEntries(document.tabs)
           IN result \in {owned, SelectSeq(owned, LAMBDA e : e.content # <<>>)}

\* ---------------------------------------------------------------- C30
\* The ids of the doc-id markers of a text, from left to right.
RECURSIVE MarkerIds(_, _)
MarkerIds(s, i) ==
  IF i > Len(s) THEN <<>>
  ELSE LET m == DocIdMatch(s, i)
       IN IF m.end > 0 THEN <<SubSeq(s, m.from, m.to)>> \o MarkerIds(s, m.end + 1)
          ELSE MarkerIds(s, i + 1)
LastSaved == saved[Len(saved)]

\* C30 as stated: whatever the file held at first, after two calls of
\* save_doc_id_to_markdown or more the file holds exactly one doc-id marker,
\* and it carries the id of the last call.
C30_ExactlyOneMarker ==
  Len(saved) >= 2 => MarkerIds(file, 1) = <<LastSaved>>

\* A call of save_doc_id_to_markdown leaves as many markers as the file held
\* before it, and one when it held none; all of them carry the id of the
\* call.
SaveKeepsMarkers ==
  saved' # saved =>
    LET before == MarkerIds(file, 1)
        after == MarkerIds(file', 1)
    IN /\ Len(after) = IF before = <<>> THEN 1 ELSE Len(before)
       /\ \A n \in 1..Len(after) : after[n] = saved'[Len(saved')]

\* C30 amended: every call of save_doc_id_to_markdown leaves the number of
\* markers of the file as it was, or at one when the file had none, every
\* marker carrying the id of that call: after any sequence of calls a file
\* that had at most one marker at first has exactly one, with the id of the
\* last call, and no call adds a marker to a file that has one.
C30_SaveKeepsMarkerCount == [][SaveKeepsMarkers]_vars

\* After the calls with ids A then B the only marker of the file carries B,
\* in the place of the marker the file had, behind its text.
C30_Reached ==
  /\ saved = << <<"A">>, <<"B">> >>
  /\ MarkerIds(file, 1) = << <<"B">> >>
  /\ file = MarkdownText \o Marker(<<"B">>)

\* ---------------------------------------------------------------- C31
\* The lines of the text, with an empty line put in front of every list item
\* whose line before in the text is not blank and is no list item.
BlankBeforeLists(text) ==
  LET lines == Split(text, "\n")
      needs(i) ==
        /\ i > 1 /\ IsListItem(lines[i])
        /\ (\E k \in 1..Len(lines[i - 1]) : lines[i - 1][k] \notin Whitespace)
        /\ ~IsListItem(lines[i - 1])
  IN Flatten([i \in 1..Len(lines) |->
                IF needs(i) THEN << <<>>, lines[i] >> ELSE <<lines[i]>>])

\* C31: the output of preprocess_markdown_for_lists is its input with a
\* blank line inserted in front of every list item that follows a line which
\* is not blank and is no list item, and with nothing else changed; applied
\* to its own output it changes nothing.
C31_BlankLineBeforeLists ==
  passes >= 1 => Split(preprocessed, "\n") = BlankBeforeLists(raw)

\* The text was preprocessed twice: a blank line stands in front of the
\* first item of the list, and none in front of the second.
C31_Reached ==
  /\ passes = 2
  /\ Split(raw, "\n") = << <<"a">>, <<"-", " ", "a">>, <<"1", ".", " ", "a">> >>
  /\ Split(preprocessed, "\n") = << <<"a">>, <<>>, <<"-", " ", "a">>, <<"1", ".", " ", "a">> >>

\* ---------------------------------------------------------------- C32
BulletedSource == {i \in 1..Len(body) : body[i].kind = "paragraph" /\ body[i].bullet.present}
SpanOf(doc, pi) == {j \in 1..Len(doc) : doc[j].k = "ch" /\ doc[j].p = pi}
\* The list of the bullet is defined by the source and its first nesting
\* level has a decimal, alpha or roman glyph type.
NumberedList(bullet) ==
  \E l \in DOMAIN source_lists :
    /\ l = bullet.listId
    /\ Len(source_lists[l]) >= 1
    /\ source_lists[l][1] \in {"DECIMAL", "ZERO_DECIMAL", "ALPHA", "UPPER_ALPHA",
                               "ROMAN", "UPPER_ROMAN"}
BulletsFor(reqs, pi) == {n \in 1..Len(reqs) : reqs[n].para = pi}
OneBulletEach(paras, reqs, doc) ==
  /\ Len(reqs) = Cardinality(BulletedSource)
  /\ \A pi \in 1..Len(paras) :
       paras[pi].bullet.present => Cardinality(BulletsFor(reqs, pi)) = 1
  /\ \A n \in 1..Len(reqs) :
       LET op == reqs[n] IN
       /\ op.op = "createParagraphBullets"
       /\ op.para \in 1..Len(paras) /\ paras[op.para].bullet.present
       /\ n > 1 => reqs[n - 1].para < op.para
       /\ op.s = IndexAt(paras, op.para, FirstIndex)
       /\ op.e - op.s = ParaLen(paras[op.para])
       /\ Indices(doc, op) = SpanOf(doc, op.para)
       /\ op.val = IF NumberedList(paras[op.para].bullet)
                     THEN "NUMBERED_DECIMAL_ALPHA_ROMAN"
                     ELSE "BULLET_DISC_CIRCLE_SQUARE"

\* C32: the bullet pass emits exactly one CreateBullets per bulleted source
\* paragraph, in paragraph order, over the characters step 1 laid out for
\* that paragraph (the start and length the step-2 cursor gives it), with
\* the numbered preset iff the paragraph's list is defined by the source
\* and its first nesting level is of a numbered glyph type, and the
\* unordered preset otherwise.
C32_OneBulletPerBulletedParagraph ==
  (pc = "bullets" /\ bi = 0) => OneBulletEach(paragraphs, requests, dest)

\* The bullet pass is entered for the body with a bullet of every kind of list.
C32_Reached ==
  /\ pc = "bullets" /\ bi = 0 /\ body \in ListBodies
  /\ \E n \in 1..Len(requests) : requests[n].val = "NUMBERED_DECIMAL_ALPHA_ROMAN"
  /\ \E n \in 1..Len(requests) :
       /\ requests[n].val = "BULLET_DISC_CIRCLE_SQUARE"
       /\ paragraphs[requests[n].para].bullet.listId \notin DOMAIN source_lists

\* ---------------------------------------------------------------- C33
HeadingStyles == {"HEADING_1", "HEADING_2", "HEADING_3", "HEADING_4", "HEADING_5", "HEADING_6"}
\* The paragraphs of kind k ("ch": of the body, "cc": of a table cell) of
\* the snapshot, each as <<start, end>>: end - 1 is its closing newline and
\* start the first index of the text in front of it.
IsText(doc, j, k) == doc[j].k = k /\ doc[j].c # "\n"
ParagraphsOfKind(doc, k) ==
  LET ends == {e \in 2..(Len(doc) + 1) : doc[e - 1].k = k /\ doc[e - 1].c = "\n"}
      start(e) == CHOOSE s \in 1..(e - 1) :
                    /\ \A j \in s..(e - 2) : IsText(doc, j, k)
                    /\ (s = 1 \/ ~IsText(doc, s - 1, k))
  IN {<<start(e), e>> : e \in ends}
IsFontOverride(op) == op.op = "updateTextStyle" /\ "weightedFontFamily" \in op.fields
Within(op, se) == se[1] <= op.s /\ op.e <= se[2]
OverridesIn(se) == {n \in 1..Len(requests) : IsFontOverride(requests[n]) /\ Within(requests[n], se)}
StylesComputed == pc = "styles" /\ bi = 0

\* C33: for the snapshot it fetched, apply_document_styles emits exactly one
\* font override per heading paragraph of the body that has text in front
\* of its newline, over [start, end - 1), and none for a heading that has
\* none; every UpdateTextStyle and UpdateParagraphStyle it emits has a
\* non-empty range that lies inside one paragraph of the snapshot, and
\* every font override lies inside a heading.
C33_HeadingOverrides ==
  StylesComputed =>
    LET paras == ParagraphsOfKind(dest, "ch")
        cells == ParagraphsOfKind(dest, "cc")
    IN /\ \A se \in paras :
            dest[se[2] - 1].ns \in HeadingStyles =>
              IF se[2] - 1 > se[1]
                THEN /\ Cardinality(OverridesIn(se)) = 1
                     /\ \A n \in OverridesIn(se) :
                          requests[n].s = se[1] /\ requests[n].e = se[2] - 1
                ELSE OverridesIn(se) = {}
       /\ \A n \in 1..Len(requests) :
            LET op == requests[n] IN
            /\ op.op \in {"updateTextStyle", "updateParagraphStyle"} =>
                 /\ op.s < op.e
                 /\ \E se \in paras \cup cells : Within(op, se)
            /\ IsFontOverride(op) =>
                 \E se \in paras : dest[se[2] - 1].ns \in HeadingStyles /\ Within(op, se)

\* The snapshot holds a heading without text, a heading with text and a
\* table whose first row has text.
C33_Reached ==
  /\ StylesComputed
  /\ \E se \in ParagraphsOfKind(dest, "ch") :
       dest[se[2] - 1].ns \in HeadingStyles /\ se[2] - 1 = se[1]
  /\ \E n \in 1..Len(requests) : IsFontOverride(requests[n])
  /\ \E n \in 1..Len(requests) : "spaceBelow" \in requests[n].fields

\* ---------------------------------------------------------------- C34
\* Control is inside apply_document_styles.
StylePoints == {"styles_get", "styles", "styles_retry"}
StylesIssued == \E i \in 1..Len(trace) : trace[i] = "styles"
Issues == trace' # trace
IssuedStage == trace'[Len(trace')]
StylesAfterReplication ==
  \* apply_document_styles is entered at its fetch, after upload_to_drive
  \* returned: nothing was raised, it was not entered before, and in an
  \* update every request of the replicator has been answered and the
  \* uploaded document has been deleted.
  /\ (pc \notin StylePoints /\ pc' \in StylePoints) =>
       /\ pc' = "styles_get"
       /\ pc = (IF existing THEN "final_get" ELSE "create")
       /\ exc' = "none" /\ raised' = ""
       /\ ~StylesIssued
       /\ existing => temp' = "deleted" /\ deletes' = 1
  \* Inside it, and after it, no request of the replicator is issued, and
  \* it is not entered again.
  /\ (pc \in StylePoints \/ StylesIssued) =>
       /\ Issues => IssuedStage = "styles"
       /\ pc \notin StylePoints => pc' \notin StylePoints
  /\ pc \in StylePoints => pc' \in StylePoints \cup {"save_id", "crashed"}
  /\ pc \in {"save_id", "done", "crashed"} => pc' \notin StylePoints
  \* After a failure of the update, control never reaches it.
  /\ pc \in {"except", "exited"} => pc' \in {"except", "exited"} /\ ~Issues
  /\ (Issues /\ IssuedStage = "styles") => pc \in {"styles", "styles_retry"}

\* C34: the style pass fetches its snapshot and issues its batches only
\* after the last request of the replicator has been answered and the
\* uploaded document deleted; it runs at most once, never after the update
\* raised, and no request of the replicator is issued once it has begun.
C34_StylesOnceAfterReplication == [][StylesAfterReplication]_vars

\* The style pass ran after an update that replayed a table.
C34_Reached ==
  /\ pc = "done" /\ existing /\ StylesIssued /\ temp = "deleted"
  /\ \E i \in 1..Len(trace) : trace[i] = "table_fill"

\* ---------------------------------------------------------------- C36
IsDeleteRange(op) == op.op = "deleteContentRange"
ClearCompletes == pc \in {"clear_get", "clear_delete", "clear_bullets"} /\ pc' = "copy_get"
ClearLeavesNewline ==
  \* When clear_document_content returns, the destination is its final
  \* newline and nothing else.
  /\ ClearCompletes => Len(dest') = 1 /\ Chars(dest') = <<"\n">>
  \* A document that holds only its final newline gets no DeleteRange.
  /\ (pc \in {"clear_get", "clear_delete", "clear_bullets"} /\ Len(dest) = 1) =>
       /\ pc' # "clear_delete"
       /\ Issues => \A n \in 1..Len(last'.ops) : ~IsDeleteRange(last'.ops[n])
  \* The insertion of step 1 then starts at index 1, where the cursor of
  \* step 2 starts.
  /\ (existing /\ pc = "step1" /\ Issues /\ last'.outcome = "ok") =>
       /\ Len(dest) = 1
       /\ dest' = AllText(paragraphs) \o dest
       /\ \A pi \in 1..Len(paragraphs) :
            dest'[IndexAt(paragraphs, pi, FirstIndex)].p = pi

\* C36: whatever the existing document held, once clear_document_content
\* has returned the destination is exactly its final newline, so that the
\* text of step 1 starts at index 1, the start of the cursor of step 2; a
\* destination that already holds only its final newline is sent no
\* DeleteRange.
C36_ClearLeavesFinalNewline == [][ClearLeavesNewline]_vars

\* The text of step 1 was inserted into a document that held a table before
\* it was cleared.
C36_Reached ==
  /\ existing /\ last.stage = "text" /\ last.outcome = "ok"
  /\ Len(trace) = 3 /\ trace[1] = "clear" /\ trace[2] = "clear"

\* ---------------------------------------------------------------- C37
\* The units of the table inserted for the source table being replayed:
\* insertTable tags them with the paragraph position of its placeholder.
ReplayedTable == table_info[ti].text_pos + 1
InReplayedTable(j) == j \in 1..Len(dest) /\ dest[j].p = ReplayedTable /\ dest[j].k # "ch"
TargetsReplayedTable(op) ==
  IF op.op = "insertText"
    THEN InReplayedTable(op.s) /\ dest[op.s].k = "cc" /\ dest[op.s - 1].k = "cell"
    ELSE op.s < op.e /\ \A j \in op.s..(op.e - 1) : InReplayedTable(j) /\ dest[j].k = "cc"

\* C37: at each of the three re-fetches of the replay of a table, the first
\* table that starts at or after placeholder_start - 1 is the table
\* inserted for it, also when another table was inserted earlier in the
\* run; the cell texts, the cell styles and the font override computed
\* from the re-fetched document all lie inside that table.
C37_RefetchSelectsReplayedTable ==
  /\ pc \in {"table_fetch1", "table_fetch2", "table_fetch3"} =>
       LET t == FindTable(dest, placeholder_start) IN
       /\ t # 0
       /\ dest[t].k = "tbl" /\ dest[t].p = ReplayedTable
       /\ \A j \in 1..(t - 1) : dest[j].k = "tbl" => dest[j].p # ReplayedTable
  /\ pc \in {"table_fill", "table_style", "table_style_retry", "table_font"} =>
       \A n \in 1..Len(requests) : TargetsReplayedTable(requests[n])

\* The font override of the first table is computed while the second
\* table, replayed before it, stands behind it.
C37_Reached ==
  /\ pc = "table_font" /\ Len(replayed) = 2 /\ requests # <<>>
  /\ \E j \in 1..Len(dest) : dest[j].k = "tbl" /\ dest[j].p # ReplayedTable

\* ---------------------------------------------------------------- C38
ParagraphText(para) ==
  Flatten([i \in 1..Len(para.elements) |-> extract_text_runs(para.elements[i])])
Newlines(s) == {i \in 1..Len(s) : s[i] = "\n"}
\* The only newline of the paragraph is the last character of its last run.
NewlineClosesLastRun(para) ==
  /\ para.elements # <<>>
  /\ extract_text_runs(para.elements[Len(para.elements)]) # <<>>
  /\ Newlines(ParagraphText(para)) = {Len(ParagraphText(para))}

\* C38: the markdown of a paragraph whose only newline is the last
\* character of its last run holds exactly one newline, its last character,
\* whatever the styles of the runs: no marker and no link wrapper follows a
\* newline.
C38_OneNewlineLast ==
  (rendered /\ element.kind = "paragraph" /\ NewlineClosesLastRun(element)) =>
    Newlines(markdown) = {Len(markdown)}

\* ---------------------------------------------------------------- C39
SectionsExported == exported /\ call.split_by_sections /\ ~call.split_by_tabs
FilesHolding(text) == {k \in 1..Len(directory) : directory[k].content = text}
SectionsWith(text) == {i \in 1..Len(result) : result[i].body = text}

\* C39: after an export by sections into an empty directory there are as
\* many files as the splitter returned sections and every section body is
\* the content of its own file: no section is skipped or overwritten by
\* another section of the run.
C39_EverySectionWritten ==
  SectionsExported =>
    /\ Len(directory) = Len(result)
    /\ \A i \in 1..Len(result) :
         Cardinality(FilesHolding(result[i].body)) = Cardinality(SectionsWith(result[i].body))

\* ---------------------------------------------------------------- C35
AfterUpload == {"styles_get", "styles", "styles_retry", "save_id", "done"}
\* C35: with an existing document id, upload_to_drive returns that id or
\* the process ends with an error and nothing is returned; the id of the
\* uploaded temporary document is never returned, whatever failed, and is
\* never the id written into the marker of the markdown file.
C35_ExistingIdReturned ==
  existing =>
    /\ returned_id \in {<<>>, OldId}
    /\ pc \in AfterUpload => returned_id = OldId
    /\ pc \in {"except", "exited"} => returned_id = <<>> /\ saved = <<>>
    /\ \A n \in 1..Len(saved) : saved[n] = OldId
    /\ \A n \in 1..Len(MarkerIds(file, 1)) : MarkerIds(file, 1)[n] # NewId

\* The update ended in the handler after the deletion of the uploaded
\* document had failed: nothing was returned and nothing written.
C35_Reached ==
  /\ existing /\ pc = "exited" /\ raised = "delete_temp"
  /\ returned_id = <<>> /\ MarkerIds(file, 1) = <<OldId>>

=============================================================================
